---- MODULE Spec2Model ----
(***************************************************************************)
(* Voice-aware podcast mixing core of wandr-project/podcast-automation:    *)
(* the spectral analyzer (VocalAnalyzer) and the adaptive EQ planner       *)
(* (EQCalculator).                                                         *)
(*                                                                         *)
(* Units.  Reported frequencies are kept in hundredths of a hertz (the     *)
(* code rounds them with toFixed(2)), reported magnitudes in units of      *)
(* 1e-4 (toFixed(4)), Q widths in hundredths.  Inside the analyzer a       *)
(* magnitude is kept in raw 16-bit sample units, that is 32768 times the   *)
(* value the code computes from its normalised samples; the transform is   *)
(* linear, so the scale is applied once, when the profile is reported.     *)
(***************************************************************************)
EXTENDS Integers, Sequences, FiniteSets, TLC

VARIABLES
    sampleRate,     \* VocalAnalyzer.sampleRate
    fftSize,        \* VocalAnalyzer.fftSize (= samplesPerFrame)
    input,          \* the decoded PCM byte stream ffmpeg will deliver
    sent,           \* number of bytes of input delivered so far in data events
    buffer,         \* VocalAnalyzer.buffer
    allMagnitudes,  \* VocalAnalyzer.allMagnitudes, one magnitude list per window
    windows,        \* history: the sample windows handed to the transform
    pc,             \* "streaming", "resolved" or "rejected": state of the promise
    profile,        \* the value the promise resolved with
    calc,           \* the EQCalculator instance: its sampleRate and VOCAL_FREQS
    eqCall,         \* the last generateBackgroundEQ call: arguments and result
    qCall,          \* the last calculateQFromBandwidth call: arguments and result
    eqPrev,         \* the generateBackgroundEQ call before the last one
    config,         \* TransmissionMixer.config, as far as the mixer branches on it
    sources,        \* what probing the voice and each selected candidate gives
    layers,         \* the layer list of processTransmission
    filterComplex,  \* the graph buildFilterComplex returned: a list of chains
    vocalAnalysis,  \* options.vocalAnalysis as mixLayers received it
    result,         \* what processTransmission returns when it fails
    stage,          \* position in processTransmission
    analysis,       \* what contentAnalyzer.analyze returned
    commandInputs,  \* the files mixLayers registered as inputs of the command
    now,            \* Date.now(), in milliseconds
    requests,       \* the POST /api/process requests the server is handling
    cancelRaised,   \* a cancellation was raised while analyze was running
    second          \* a second analyze call on the same VocalAnalyzer

analyzerVars ==
    <<sampleRate, fftSize, input, sent, buffer, allMagnitudes, windows, pc, profile>>

eqVars == <<calc, eqCall, qCall, eqPrev>>

mixVars ==
    <<config, sources, layers, filterComplex, vocalAnalysis, result, stage,
      analysis, commandInputs>>

serverVars == <<now, requests>>

callVars == <<cancelRaised, second>>

vars == <<analyzerVars, eqVars, mixVars, serverVars, callVars>>

(***************************************************************************)
(* Bounds of the model.                                                    *)
(***************************************************************************)
MaxBytes == 13
MaxChunk == 5

(***************************************************************************)
(* Program constants.                                                      *)
(***************************************************************************)
bytesPerSample == 2
Int16Scale == 32768
minFreqHz == 80
maxFreqHz == 8000
lowBandEndFreq == 500
midBandEndFreq == 5000
numPeaks == 5

NoProfile == [none |-> TRUE]
NoCall == [none |-> TRUE]
NoConfig == [none |-> TRUE]
NoSources == [none |-> TRUE]
NoAnalysis == [none |-> TRUE]
NoResult == [none |-> TRUE]

(***************************************************************************)
(* The mixer before processTransmission is called.                         *)
(***************************************************************************)
MixerIdle ==
    /\ config = NoConfig
    /\ sources = NoSources
    /\ layers = <<>>
    /\ filterComplex = <<>>
    /\ vocalAnalysis = NoAnalysis
    /\ result = NoResult
    /\ stage = "idle"
    /\ analysis = NoAnalysis
    /\ commandInputs = <<>>

(***************************************************************************)
(* The server before any request, and an analyzer used by one call that    *)
(* nobody cancels.                                                         *)
(***************************************************************************)
ServerIdle ==
    /\ now = 0
    /\ requests = <<>>

SingleCall ==
    /\ cancelRaised = FALSE
    /\ second = NoCall

(***************************************************************************)
(* Frequencies in hundredths of a hertz.                                   *)
(***************************************************************************)
CentiHz(hz) == hz * 100

Min(a, b) == IF a < b THEN a ELSE b
Max(a, b) == IF a > b THEN a ELSE b

(***************************************************************************)
(* Number.prototype.toFixed followed by parseFloat: x = num/den >= 0       *)
(* rounded to `digits' decimals, ties upwards.  The result is the integer  *)
(* x * 10^digits, produced by long division one decimal at a time.         *)
(***************************************************************************)
RECURSIVE FixDigits(_, _, _, _)
FixDigits(q, r, den, digits) ==
    IF digits = 0
    THEN IF 2 * r >= den THEN q + 1 ELSE q
    ELSE FixDigits(q * 10 + (r * 10) \div den, (r * 10) % den, den, digits - 1)

ToFixed(num, den, digits) == FixDigits(num \div den, num % den, den, digits)

(***************************************************************************)
(* Math.sqrt, to the unit below.                                           *)
(***************************************************************************)
RECURSIVE SqrtSearch(_, _, _)
SqrtSearch(n, lo, hi) ==
    IF lo >= hi THEN lo
    ELSE LET mid == (lo + hi + 1) \div 2
         IN  IF mid * mid <= n THEN SqrtSearch(n, mid, hi)
                               ELSE SqrtSearch(n, lo, mid - 1)

Sqrt(n) == SqrtSearch(n, 0, 46340)

(***************************************************************************)
(* Buffer.readInt16LE: two bytes, low byte first, as a signed 16-bit value.*)
(* offset is zero-based as in the code.                                    *)
(***************************************************************************)
ReadInt16LE(bytes, offset) ==
    LET u == bytes[offset + 1] + 256 * bytes[offset + 2]
    IN  IF u >= 32768 THEN u - 65536 ELSE u

(***************************************************************************)
(* new Float32Array(bytes.length / bytesPerSample) filled by readInt16LE: a*)
(* fractional length is truncated, so a trailing odd byte gives no sample. *)
(***************************************************************************)
FloatSamples(bytes) ==
    [i \in 1..(Len(bytes) \div bytesPerSample) |->
        ReadInt16LE(bytes, (i - 1) * bytesPerSample)]

(***************************************************************************)
(* The discrete Fourier transform of a window of m samples, bin k.  The    *)
(* twiddle factor of sample n is a whole number of quarter turns for every *)
(* bin the analyzer keeps when m <= 4: bin 0 of any window, and bin 1 of a *)
(* four-sample window.                                                     *)
(***************************************************************************)
CosQ == <<1, 0, -1, 0>>
SinQ == <<0, 1, 0, -1>>
Quarter(k, n, m) == ((4 * k * n) \div m) % 4

RECURSIVE SumTo(_, _)
SumTo(f, n) == IF n = 0 THEN 0 ELSE f[n] + SumTo(f, n - 1)

PhasorRe(samples, k) ==
    LET m == Len(samples)
    IN  SumTo([n \in 1..m |-> samples[n] * CosQ[Quarter(k, n - 1, m) + 1]], m)

PhasorIm(samples, k) ==
    LET m == Len(samples)
    IN  SumTo([n \in 1..m |-> -(samples[n] * SinQ[Quarter(k, n - 1, m) + 1])], m)

FftMag(samples, k) ==
    LET re == PhasorRe(samples, k)
        im == PhasorIm(samples, k)
    IN  Sqrt(re * re + im * im)

(***************************************************************************)
(* The magnitudes one window contributes: util.fftFreq keeps the first     *)
(* half of the bins of the window, and the result is cut to fftSize/2.     *)
(***************************************************************************)
WindowMagnitudes(samples, size) ==
    [b \in 1..Min(Len(samples) \div 2, size \div 2) |-> FftMag(samples, b - 1)]

(***************************************************************************)
(* _processBuffer as it would be if the end-of-stream clause of the loop   *)
(* condition were missing: the remainder is never analysed.                *)
(***************************************************************************)
RECURSIVE ProcessBufferDropsRemainder(_, _, _)
ProcessBufferDropsRemainder(st, size, isEnd) ==
    LET frameBytes == size * bytesPerSample
        buf == st.buffer
    IN  IF Len(buf) >= frameBytes
        THEN LET floatSamples == FloatSamples(SubSeq(buf, 1, frameBytes))
             IN  ProcessBufferDropsRemainder(
                     [buffer |-> SubSeq(buf, frameBytes + 1, Len(buf)),
                      allMagnitudes |->
                          Append(st.allMagnitudes, WindowMagnitudes(floatSamples, size)),
                      windows |-> Append(st.windows, floatSamples)],
                     size, isEnd)
        ELSE st

(***************************************************************************)
(* _processBuffer as it would be if the loop waited for more than one      *)
(* frame of bytes (> instead of >=).                                       *)
(***************************************************************************)
RECURSIVE ProcessBufferWaitsForMore(_, _, _)
ProcessBufferWaitsForMore(st, size, isEnd) ==
    LET frameBytes == size * bytesPerSample
        buf == st.buffer
    IN  IF Len(buf) > frameBytes \/ (isEnd /\ Len(buf) > 0)
        THEN LET full == Len(buf) >= frameBytes
                 currentSamplesBuffer ==
                     IF full THEN SubSeq(buf, 1, frameBytes) ELSE buf
                 rest ==
                     IF full THEN SubSeq(buf, frameBytes + 1, Len(buf)) ELSE <<>>
                 floatSamples == FloatSamples(currentSamplesBuffer)
             IN  ProcessBufferWaitsForMore(
                     [buffer |-> rest,
                      allMagnitudes |->
                          Append(st.allMagnitudes, WindowMagnitudes(floatSamples, size)),
                      windows |-> Append(st.windows, floatSamples)],
                     size, isEnd)
        ELSE st

(***************************************************************************)
(* VocalAnalyzer._processBuffer, on the analyzer state                     *)
(* st = [buffer, allMagnitudes, windows].                                  *)
(***************************************************************************)
RECURSIVE ProcessBuffer(_, _, _)
ProcessBuffer(st, size, isEnd) ==
    LET frameBytes == size * bytesPerSample
        buf == st.buffer
    IN  IF Len(buf) >= frameBytes \/ (isEnd /\ Len(buf) > 0)
        THEN LET full == Len(buf) >= frameBytes
                 currentSamplesBuffer ==
                     IF full THEN SubSeq(buf, 1, frameBytes) ELSE buf
                 rest ==
                     IF full THEN SubSeq(buf, frameBytes + 1, Len(buf)) ELSE <<>>
                 floatSamples == FloatSamples(currentSamplesBuffer)
             IN  ProcessBuffer(
                     [buffer |-> rest,
                      allMagnitudes |->
                          Append(st.allMagnitudes, WindowMagnitudes(floatSamples, size)),
                      windows |-> Append(st.windows, floatSamples)],
                     size, isEnd)
        ELSE st

(***************************************************************************)
(* VocalAnalyzer.getDefaultVocalProfile.                                   *)
(***************************************************************************)
GetDefaultVocalProfile ==
    [dominantFrequency |-> 0,
     averageEnergyByBand |-> [low |-> 0, mid |-> 0, high |-> 0],
     peakFrequencies |-> <<>>]

(***************************************************************************)
(* _calculateFinalProfile, first part: the per-bin sums over all windows.  *)
(* Bins are numbered from 0 as in the code.  The average of bin i is       *)
(* CumulativeMagnitudes[i] / totalWindows; the model keeps the sum and the *)
(* divisor, so that no average is rounded before it is reported.           *)
(***************************************************************************)
TotalBins(size) == size \div 2

CumulativeMagnitudes(all, size) ==
    [i \in 0..(TotalBins(size) - 1) |->
        SumTo([w \in 1..Len(all) |->
                  IF i < Len(all[w]) THEN all[w][i + 1] ELSE 0], Len(all))]

(***************************************************************************)
(* The bin range searched for the dominant frequency:                      *)
(* floor(80 / (sampleRate/fftSize)) and ceil(8000 / (sampleRate/fftSize)), *)
(* clamped to the bins that exist.                                         *)
(***************************************************************************)
MinBin(rate, size) == Max(0, (minFreqHz * size) \div rate)

MaxBin(rate, size) ==
    Min(TotalBins(size) - 1, (maxFreqHz * size + rate - 1) \div rate)

(***************************************************************************)
(* The loop that looks for the bin with the highest average magnitude,     *)
(* starting from dominantFrequencyBin = -1 and maxAvgMagnitude = -1: a bin *)
(* replaces the current one only when its average is strictly greater, so  *)
(* the loop ends on the first bin of the highest average that exceeds -1.  *)
(* The range is scanned by halves; of two candidates the later one wins    *)
(* only when strictly greater, as in the loop.                             *)
(***************************************************************************)
RECURSIVE ScanDominant(_, _, _)
ScanDominant(cum, lo, hi) ==
    IF lo > hi THEN -1
    ELSE IF lo = hi THEN (IF cum[lo] > -1 THEN lo ELSE -1)
    ELSE LET mid == (lo + hi) \div 2
             left == ScanDominant(cum, lo, mid)
             right == ScanDominant(cum, mid + 1, hi)
         IN  IF right = -1 THEN left
             ELSE IF left = -1 THEN right
             ELSE IF cum[right] > cum[left] THEN right ELSE left

DominantFrequencyBin(cum, rate, size) ==
    ScanDominant(cum, MinBin(rate, size), MaxBin(rate, size))

(***************************************************************************)
(* dominantFrequency as reported, in hundredths of a hertz.                *)
(***************************************************************************)
DominantFrequency(cum, rate, size) ==
    LET bin == DominantFrequencyBin(cum, rate, size)
    IN  IF bin # -1 THEN ToFixed(bin * rate, size, 2) ELSE 0

(***************************************************************************)
(* The band of a bin as it would be if the high band had no upper limit.   *)
(***************************************************************************)
BandOfUnboundedHigh(index, rate, size) ==
    IF index * rate <= lowBandEndFreq * size THEN "low"
    ELSE IF index * rate <= midBandEndFreq * size THEN "mid"
    ELSE "high"

(***************************************************************************)
(* The band a bin is counted in by the if / else-if chain of the energy    *)
(* loop; freq = index * (sampleRate / fftSize).                            *)
(***************************************************************************)
BandOf(index, rate, size) ==
    IF index * rate <= lowBandEndFreq * size THEN "low"
    ELSE IF index * rate > lowBandEndFreq * size
            /\ index * rate <= midBandEndFreq * size THEN "mid"
    ELSE IF index * rate > midBandEndFreq * size
            /\ index * rate <= maxFreqHz * size THEN "high"
    ELSE "none"

RECURSIVE BandSum(_, _, _, _, _, _)
BandSum(cum, band, lo, hi, rate, size) ==
    IF lo > hi THEN [energy |-> 0, count |-> 0]
    ELSE IF lo = hi
         THEN IF BandOf(lo, rate, size) = band
              THEN [energy |-> cum[lo], count |-> 1]
              ELSE [energy |-> 0, count |-> 0]
    ELSE LET mid == (lo + hi) \div 2
             left == BandSum(cum, band, lo, mid, rate, size)
             right == BandSum(cum, band, mid + 1, hi, rate, size)
         IN  [energy |-> left.energy + right.energy,
              count |-> left.count + right.count]

(***************************************************************************)
(* One entry of averageEnergyByBand as reported, in units of 1e-4:         *)
(* (energy / count) of the averaged magnitudes, or 0 for an empty band.    *)
(***************************************************************************)
BandEnergy(cum, totalWindows, band, rate, size) ==
    LET r == BandSum(cum, band, 0, TotalBins(size) - 1, rate, size)
    IN  IF r.count > 0
        THEN ToFixed(r.energy, r.count * totalWindows * Int16Scale, 4)
        ELSE 0

(***************************************************************************)
(* The filter of the peak list: bins whose frequency is in [80, 8000] Hz.  *)
(***************************************************************************)
InPeakRange(index, rate, size) ==
    index * rate >= minFreqHz * size /\ index * rate <= maxFreqHz * size

(***************************************************************************)
(* sort by descending magnitude and slice(0, numPeaks): the sort is        *)
(* stable, so each peak is the first not yet taken bin of the highest      *)
(* magnitude.                                                              *)
(***************************************************************************)
RECURSIVE ScanPeak(_, _, _, _, _, _)
ScanPeak(cum, lo, hi, taken, rate, size) ==
    IF lo > hi THEN -1
    ELSE IF lo = hi
         THEN IF InPeakRange(lo, rate, size) /\ lo \notin taken THEN lo ELSE -1
    ELSE LET mid == (lo + hi) \div 2
             left == ScanPeak(cum, lo, mid, taken, rate, size)
             right == ScanPeak(cum, mid + 1, hi, taken, rate, size)
         IN  IF right = -1 THEN left
             ELSE IF left = -1 THEN right
             ELSE IF cum[right] > cum[left] THEN right ELSE left

RECURSIVE PeakBins(_, _, _, _, _)
PeakBins(cum, taken, n, rate, size) ==
    IF n = 0 THEN <<>>
    ELSE LET b == ScanPeak(cum, 0, TotalBins(size) - 1, taken, rate, size)
         IN  IF b = -1 THEN <<>>
             ELSE <<b>> \o PeakBins(cum, taken \cup {b}, n - 1, rate, size)

PeakFrequencies(cum, totalWindows, rate, size) ==
    LET bins == PeakBins(cum, {}, numPeaks, rate, size)
    IN  [p \in 1..Len(bins) |->
            [freq |-> ToFixed(bins[p] * rate, size, 2),
             mag |-> ToFixed(cum[bins[p]], totalWindows * Int16Scale, 4)]]

(***************************************************************************)
(* VocalAnalyzer._calculateFinalProfile.                                   *)
(***************************************************************************)
CalculateFinalProfile(all, rate, size) ==
    IF Len(all) = 0 THEN GetDefaultVocalProfile
    ELSE LET cum == CumulativeMagnitudes(all, size)
             totalWindows == Len(all)
         IN  [dominantFrequency |-> DominantFrequency(cum, rate, size),
              averageEnergyByBand |->
                  [low |-> BandEnergy(cum, totalWindows, "low", rate, size),
                   mid |-> BandEnergy(cum, totalWindows, "mid", rate, size),
                   high |-> BandEnergy(cum, totalWindows, "high", rate, size)],
              peakFrequencies |-> PeakFrequencies(cum, totalWindows, rate, size)]

(***************************************************************************)
(*                              EQCalculator                               *)
(***************************************************************************)
(* The constructor: sampleRate and the VOCAL_FREQS table, in hertz.        *)
(***************************************************************************)
NewEQCalculator(rate) ==
    [sampleRate |-> rate,
     VOCAL_FREQS |-> [lowCutoff |-> 80, bodyLow |-> 100, bodyHigh |-> 300,
                      midPresenceLow |-> 1000, midPresenceHigh |-> 5000,
                      air |-> 8000]]

(***************************************************************************)
(* calculateQFromBandwidth as it would be with the quotient inverted, and  *)
(* as it would be without the guard on a zero bandwidth.                   *)
(***************************************************************************)
CalculateQInverted(fCenter, bandwidthInHz) ==
    IF bandwidthInHz = 0 THEN [num |-> 1, den |-> 1]
    ELSE [num |-> bandwidthInHz, den |-> fCenter]

CalculateQUnguarded(fCenter, bandwidthInHz) ==
    [num |-> fCenter, den |-> bandwidthInHz]

(***************************************************************************)
(* EQCalculator.calculateQFromBandwidth.  The quotient is kept as the pair *)
(* numerator / denominator; it is rounded where the caller formats it.     *)
(***************************************************************************)
CalculateQFromBandwidth(fCenter, bandwidthInHz) ==
    IF bandwidthInHz = 0 THEN [num |-> 1, den |-> 1]
    ELSE [num |-> fCenter, den |-> bandwidthInHz]

(***************************************************************************)
(* The filters of a chain.  f in hundredths of a hertz, width (a Q) in     *)
(* hundredths, g in decibels.                                              *)
(***************************************************************************)
Highpass(f) == [type |-> "highpass", f |-> f]

Equalizer(f, width, g) ==
    [type |-> "equalizer", f |-> f, width_type |-> "q", width |-> width, g |-> g]

baseGainReduction == -4

(***************************************************************************)
(* A profile that is absent, or that carries no dominantFrequency, fails   *)
(* every comparison on it.                                                 *)
(***************************************************************************)
HasDominantFrequency(vocalProfile) ==
    vocalProfile # NoProfile /\ "dominantFrequency" \in DOMAIN vocalProfile

(***************************************************************************)
(* The mid-range scoop as it would be with inclusive bounds.               *)
(***************************************************************************)
MidRangeScoopInclusive(c, vocalProfile) ==
    IF /\ HasDominantFrequency(vocalProfile)
       /\ vocalProfile.dominantFrequency >= CentiHz(c.VOCAL_FREQS.bodyLow)
       /\ vocalProfile.dominantFrequency <= CentiHz(c.VOCAL_FREQS.midPresenceHigh)
    THEN LET centerFreq == vocalProfile.dominantFrequency
             qValue == CalculateQFromBandwidth(centerFreq, CentiHz(1500))
         IN  [type |-> "equalizer", f |-> centerFreq, width_type |-> "q",
              width |-> ToFixed(qValue.num, qValue.den, 2), g |-> -4]
    ELSE [type |-> "equalizer", f |-> CentiHz(2000), width_type |-> "q",
          width |-> 80, g |-> -4]

(***************************************************************************)
(* generateBackgroundEQ, step 2: the mid-range scoop, centred on the       *)
(* dominant frequency or the fallback at 2000 Hz.                          *)
(***************************************************************************)
MidRangeScoop(c, vocalProfile) ==
    IF /\ HasDominantFrequency(vocalProfile)
       /\ vocalProfile.dominantFrequency > CentiHz(c.VOCAL_FREQS.bodyLow)
       /\ vocalProfile.dominantFrequency < CentiHz(c.VOCAL_FREQS.midPresenceHigh)
    THEN LET centerFreq == vocalProfile.dominantFrequency
             bandwidth == CentiHz(1500)
             qValue == CalculateQFromBandwidth(centerFreq, bandwidth)
         IN  Equalizer(centerFreq, ToFixed(qValue.num, qValue.den, 2), baseGainReduction)
    ELSE Equalizer(CentiHz(2000), 80, baseGainReduction)

(***************************************************************************)
(* The presence cut as it would be if only music received it.              *)
(***************************************************************************)
PresenceCutMusicOnly(layerType) ==
    IF layerType = "music"
    THEN <<[type |-> "equalizer", f |-> CentiHz(5000), width_type |-> "q",
            width |-> 100, g |-> -3]>>
    ELSE <<>>

(***************************************************************************)
(* generateBackgroundEQ, step 3: the presence cut of ambience and music.   *)
(***************************************************************************)
PresenceCut(layerType) ==
    IF layerType = "ambience" \/ layerType = "music"
    THEN <<Equalizer(CentiHz(5000), 100, -3)>>
    ELSE <<>>

(***************************************************************************)
(* A stream label is a sequence of tokens, "[" name "]".                   *)
(* String.prototype.replace with a string pattern removes the first        *)
(* occurrence only.                                                        *)
(***************************************************************************)
RECURSIVE RemoveFirst(_, _)
RemoveFirst(tokens, t) ==
    IF Len(tokens) = 0 THEN <<>>
    ELSE IF Head(tokens) = t THEN Tail(tokens)
    ELSE <<Head(tokens)>> \o RemoveFirst(Tail(tokens), t)

RECURSIVE Join(_)
Join(tokens) == IF Len(tokens) = 0 THEN "" ELSE Head(tokens) \o Join(Tail(tokens))

OutputLabel(inputLabel) ==
    Join(RemoveFirst(RemoveFirst(inputLabel, "["), "]")) \o "_eq"

(***************************************************************************)
(* EQCalculator.generateBackgroundEQ: the chain                            *)
(* inputLabel , filters [outputLabel].                                     *)
(***************************************************************************)
GenerateBackgroundEQ(c, vocalProfile, layerType, inputLabel) ==
    LET filters == <<Highpass(CentiHz(90))>>
                   \o <<MidRangeScoop(c, vocalProfile)>>
                   \o PresenceCut(layerType)
        outputLabel == OutputLabel(inputLabel)
    IN  IF Len(filters) > 0
        THEN [input |-> inputLabel, filters |-> filters,
              output |-> <<"[", outputLabel, "]">>]
        ELSE [input |-> inputLabel, filters |-> <<>>,
              output |-> <<"[", outputLabel, "]">>]

(***************************************************************************)
(* generateBackgroundEQ as it would be if it kept the last dominant        *)
(* frequency as the calculator's bodyLow threshold.                        *)
(***************************************************************************)
StateAfterAdaptingThreshold(c, vocalProfile, layerType, inputLabel) ==
    [calc |-> IF HasDominantFrequency(vocalProfile)
              THEN [c EXCEPT !.VOCAL_FREQS.bodyLow =
                                 vocalProfile.dominantFrequency \div 100]
              ELSE c,
     vocalProfile |-> vocalProfile]

(***************************************************************************)
(* What generateBackgroundEQ leaves behind: it assigns no field of the     *)
(* calculator and none of the profile it is given.                         *)
(***************************************************************************)
StateAfterGenerateBackgroundEQ(c, vocalProfile, layerType, inputLabel) ==
    [calc |-> c, vocalProfile |-> vocalProfile]

(***************************************************************************)
(* The analyzer configurations and decoded streams the streaming           *)
(* specification runs over.  A stream is a byte pattern cut to a length;   *)
(* odd bytes are low bytes, even bytes high bytes of a sample.             *)
(***************************************************************************)
StreamConfigs ==
    {[sampleRate |-> 8000, fftSize |-> 4], [sampleRate |-> 44100, fftSize |-> 4],
     [sampleRate |-> 8000, fftSize |-> 2], [sampleRate |-> 44100, fftSize |-> 2]}

Patterns == {"silence", "ramp", "tone", "negative"}

ToneHigh == <<2, 0, 254, 0>>

PatternByte(pattern, k) ==
    LET sample == (k - 1) \div 2
        isLow == k % 2 = 1
    IN  CASE pattern = "silence" -> 0
          [] pattern = "ramp" -> IF isLow THEN (37 * sample + 5) % 256 ELSE sample % 4
          [] pattern = "tone" -> IF isLow THEN 0 ELSE ToneHigh[(sample % 4) + 1]
          [] pattern = "negative" -> IF isLow THEN (11 * sample) % 256 ELSE 255

Streams == {[k \in 1..len |-> PatternByte(p, k)] : p \in Patterns, len \in 0..MaxBytes}

AllZero(seq) == \A k \in 1..Len(seq) : seq[k] = 0

(***************************************************************************)
(* State after the constructor and the reset at the start of analyze, with *)
(* the promise pending and ffmpeg about to deliver `input'.                *)
(***************************************************************************)
Init ==
    /\ \E c \in StreamConfigs : sampleRate = c.sampleRate /\ fftSize = c.fftSize
    /\ input \in Streams
    /\ sent = 0
    /\ buffer = <<>>
    /\ allMagnitudes = <<>>
    /\ windows = <<>>
    /\ pc = "streaming"
    /\ profile = NoProfile
    /\ calc = NewEQCalculator(sampleRate)
    /\ eqCall = NoCall
    /\ qCall = NoCall
    /\ eqPrev = NoCall
    /\ MixerIdle
    /\ ServerIdle
    /\ SingleCall

(***************************************************************************)
(* ffmpegCommand.on('data'): append the chunk, then _processBuffer().      *)
(***************************************************************************)
OnData ==
    /\ pc = "streaming"
    /\ sent < Len(input)
    /\ \E n \in 1..Min(MaxChunk, Len(input) - sent) :
          LET chunk == SubSeq(input, sent + 1, sent + n)
              st == ProcessBuffer([buffer |-> buffer \o chunk,
                                   allMagnitudes |-> allMagnitudes,
                                   windows |-> windows], fftSize, FALSE)
          IN  /\ sent' = sent + n
              /\ buffer' = st.buffer
              /\ allMagnitudes' = st.allMagnitudes
              /\ windows' = st.windows
    /\ UNCHANGED <<sampleRate, fftSize, input, pc, profile>>
    /\ UNCHANGED <<eqVars, mixVars, serverVars, callVars>>

(***************************************************************************)
(* ffmpegCommand.on('end'): _processBuffer(true), then resolve with        *)
(* _calculateFinalProfile().                                               *)
(***************************************************************************)
OnEnd ==
    /\ pc = "streaming"
    /\ sent = Len(input)
    /\ LET st == ProcessBuffer([buffer |-> buffer,
                                allMagnitudes |-> allMagnitudes,
                                windows |-> windows], fftSize, TRUE)
       IN  /\ buffer' = st.buffer
           /\ allMagnitudes' = st.allMagnitudes
           /\ windows' = st.windows
           /\ profile' = CalculateFinalProfile(st.allMagnitudes, sampleRate, fftSize)
    /\ pc' = "resolved"
    /\ UNCHANGED <<sampleRate, fftSize, input, sent>>
    /\ UNCHANGED <<eqVars, mixVars, serverVars, callVars>>

(***************************************************************************)
(* ffmpegCommand.on('error'): the promise is rejected; the decoder may     *)
(* fail at any point before the end of the stream.                         *)
(***************************************************************************)
OnError ==
    /\ pc = "streaming"
    /\ pc' = "rejected"
    /\ UNCHANGED <<sampleRate, fftSize, input, sent, buffer, allMagnitudes,
                   windows, profile>>
    /\ UNCHANGED <<eqVars, mixVars, serverVars, callVars>>

Next == OnData \/ OnEnd \/ OnError

Spec == Init /\ [][Next]_vars

(***************************************************************************)
(* Second specification: the end of an analysis at full scale.  The        *)
(* constructor's default pair (44100, 2048) and two other pairs; the       *)
(* stream has been consumed and allMagnitudes holds one or two windows     *)
(* whose spectrum is flat apart from one bin, placed at the edges of the   *)
(* ranges the profile distinguishes.  The sample history is not kept here. *)
(***************************************************************************)
ProfileConfigs ==
    {[sampleRate |-> 44100, fftSize |-> 2048], [sampleRate |-> 48000, fftSize |-> 256],
     [sampleRate |-> 32000, fftSize |-> 64]}

EdgeBins(rate, size) ==
    LET edges == {0, TotalBins(size) - 1}
                 \cup {(f * size) \div rate : f \in {minFreqHz, lowBandEndFreq,
                                                    midBandEndFreq, maxFreqHz}}
    IN  {b \in edges \cup {e + 1 : e \in edges} : b >= 0 /\ b < TotalBins(size)}

Spectrum(size, peakBin, peak, floor) ==
    [b \in 1..TotalBins(size) |-> IF b - 1 = peakBin THEN peak ELSE floor]

Spectra(rate, size) ==
    {Spectrum(size, b, a, f) : b \in EdgeBins(rate, size), a \in {0, 600}, f \in {0, 3}}

AccumulatedWindows(rate, size) ==
    {<<s>> : s \in Spectra(rate, size)}
    \cup {<<s, Spectrum(size, 0, 40, 0)>> : s \in Spectra(rate, size)}

InitProfile ==
    /\ \E c \in ProfileConfigs :
          /\ sampleRate = c.sampleRate
          /\ fftSize = c.fftSize
          /\ allMagnitudes \in AccumulatedWindows(c.sampleRate, c.fftSize)
    /\ input = <<>>
    /\ sent = 0
    /\ buffer = <<>>
    /\ windows = <<>>
    /\ pc = "streaming"
    /\ profile = NoProfile
    /\ calc = NewEQCalculator(sampleRate)
    /\ eqCall = NoCall
    /\ qCall = NoCall
    /\ eqPrev = NoCall
    /\ MixerIdle
    /\ ServerIdle
    /\ SingleCall

NextProfile == OnEnd \/ OnError

SpecProfile == InitProfile /\ [][NextProfile]_vars

(***************************************************************************)
(*                     Properties of the spectral analyzer                 *)
(***************************************************************************)
FrameBytes == fftSize * bytesPerSample

RECURSIVE Partition(_, _)
Partition(samples, n) ==
    IF Len(samples) = 0 THEN <<>>
    ELSE IF Len(samples) <= n THEN <<samples>>
    ELSE <<SubSeq(samples, 1, n)>> \o Partition(SubSeq(samples, n + 1, Len(samples)), n)

RECURSIVE Flatten(_)
Flatten(seqs) == IF Len(seqs) = 0 THEN <<>> ELSE Head(seqs) \o Flatten(Tail(seqs))

\* C1: for an input of one or more samples that are all zero, in any split
\* into data chunks, the resolved profile has dominantFrequency = 0 and an
\* empty peakFrequencies list.
C1_SilentInputZeroProfile ==
    (pc = "resolved" /\ Len(input) >= bytesPerSample /\ AllZero(input))
        => (profile.dominantFrequency = 0 /\ profile.peakFrequencies = <<>>)

\* C2: for an empty stream and for a stream of fewer than 2 bytes the promise
\* resolves with the default profile, and the end-of-stream pass adds no
\* analysed window.
C2_TinyInputDefaultProfile ==
    (pc = "resolved" /\ Len(input) < bytesPerSample)
        => (profile = GetDefaultVocalProfile /\ allMagnitudes = <<>> /\ windows = <<>>)

\* C3: however the stream is cut into data chunks, the analysed windows are
\* the consecutive non-overlapping fftSize-sample blocks of the stream, with
\* one shorter last window for the remainder at end-of-stream; no sample is
\* analysed twice or dropped, less than one frame of bytes stays buffered
\* after a data event, and the buffer is empty when the profile is computed.
C3_WindowsPartitionStream ==
    LET framesSent == sent \div FrameBytes
    IN  /\ pc # "resolved" =>
            /\ Len(buffer) < FrameBytes
            /\ buffer = SubSeq(input, framesSent * FrameBytes + 1, sent)
            /\ windows = Partition(
                   FloatSamples(SubSeq(input, 1, framesSent * FrameBytes)), fftSize)
        /\ pc = "resolved" =>
            /\ buffer = <<>>
            /\ Flatten(windows) = FloatSamples(input)
            /\ \A j \in 1..(Len(windows) - 1) : Len(windows[j]) = fftSize
            /\ Len(input) % bytesPerSample = 0 =>
                   windows = Partition(FloatSamples(input), fftSize)
        /\ Len(allMagnitudes) = Len(windows)

C3_Witness ==
    /\ pc = "resolved"
    /\ Len(input) % bytesPerSample = 0
    /\ Len(windows) >= 3
    /\ Len(windows[Len(windows)]) \in 1..(fftSize - 1)
    /\ ~AllZero(input)

\* C4: a stream of exactly one frame gives exactly one analysed window, taken
\* by the data event that completes the frame, and the resolved profile is
\* the one computed from that window, not the default profile.
C4_SingleFrameAnalysed ==
    Len(input) = FrameBytes =>
        /\ sent < Len(input) => windows = <<>>
        /\ sent = Len(input) =>
              /\ windows = <<FloatSamples(input)>>
              /\ allMagnitudes = <<WindowMagnitudes(FloatSamples(input), fftSize)>>
              /\ buffer = <<>>
        /\ pc = "resolved" =>
              profile = [dominantFrequency |->
                             DominantFrequency(CumulativeMagnitudes(allMagnitudes, fftSize),
                                               sampleRate, fftSize),
                         averageEnergyByBand |->
                             [b \in {"low", "mid", "high"} |->
                                 BandEnergy(CumulativeMagnitudes(allMagnitudes, fftSize),
                                            1, b, sampleRate, fftSize)],
                         peakFrequencies |->
                             PeakFrequencies(CumulativeMagnitudes(allMagnitudes, fftSize),
                                             1, sampleRate, fftSize)]

C4_Witness ==
    /\ pc = "resolved"
    /\ Len(input) = FrameBytes
    /\ fftSize = 4
    /\ profile.averageEnergyByBand.low > 0
    /\ profile # GetDefaultVocalProfile

InAnalysisBand(f) == f >= CentiHz(minFreqHz) /\ f <= CentiHz(maxFreqHz)

\* C5: every frequency of a resolved profile lies in [80 Hz, 8000 Hz]:
\* dominantFrequency is 0 or in the band, and each of the at most 5 peaks is
\* in the band, for the default pair (44100, 2048) and any other pair.
C5_FrequenciesInBand ==
    pc = "resolved" =>
        /\ profile.dominantFrequency = 0 \/ InAnalysisBand(profile.dominantFrequency)
        /\ Len(profile.peakFrequencies) <= numPeaks
        /\ \A p \in 1..Len(profile.peakFrequencies) :
              InAnalysisBand(profile.peakFrequencies[p].freq)

(***************************************************************************)
(* The mean, as reported, of the averaged magnitudes over the bins whose   *)
(* frequency lies between loHz and hiHz; hiHz is included, loHz is         *)
(* included when loClosed.                                                 *)
(***************************************************************************)
BinsBetween(loHz, hiHz, loClosed) ==
    {i \in 0..(TotalBins(fftSize) - 1) :
        /\ i * sampleRate <= hiHz * fftSize
        /\ IF loClosed THEN i * sampleRate >= loHz * fftSize
                       ELSE i * sampleRate > loHz * fftSize}

RECURSIVE SumOver(_, _, _)
SumOver(f, lo, hi) ==
    IF lo > hi THEN 0
    ELSE IF lo = hi THEN f[lo]
    ELSE SumOver(f, lo, (lo + hi) \div 2) + SumOver(f, (lo + hi) \div 2 + 1, hi)

MeanBetween(loHz, hiHz, loClosed) ==
    LET bins == BinsBetween(loHz, hiHz, loClosed)
        cum == CumulativeMagnitudes(allMagnitudes, fftSize)
        total == SumOver([i \in 0..(TotalBins(fftSize) - 1) |->
                             IF i \in bins THEN cum[i] ELSE 0],
                         0, TotalBins(fftSize) - 1)
    IN  IF bins = {} THEN 0
        ELSE ToFixed(total, Cardinality(bins) * Len(allMagnitudes) * Int16Scale, 4)

\* C6: low, mid and high of averageEnergyByBand are the means of the averaged
\* bin magnitudes over the bins in (0,500], (500,5000] and (5000,8000] Hz:
\* the 0 Hz bin and the bins above 8000 Hz are in no band.
C6_BandsExcludeDC ==
    (pc = "resolved" /\ Len(allMagnitudes) > 0) =>
        /\ profile.averageEnergyByBand.low = MeanBetween(0, lowBandEndFreq, FALSE)
        /\ profile.averageEnergyByBand.mid = MeanBetween(lowBandEndFreq, midBandEndFreq, FALSE)
        /\ profile.averageEnergyByBand.high = MeanBetween(midBandEndFreq, maxFreqHz, FALSE)

\* C6 as amended: low is the mean over the bins in [0,500] Hz, the 0 Hz bin
\* included; mid and high are the means over (500,5000] and (5000,8000] Hz;
\* bins above 8000 Hz are in no band and no bin is in two bands.
C6_BandsIncludeDC ==
    (pc = "resolved" /\ Len(allMagnitudes) > 0) =>
        /\ profile.averageEnergyByBand.low = MeanBetween(0, lowBandEndFreq, TRUE)
        /\ profile.averageEnergyByBand.mid = MeanBetween(lowBandEndFreq, midBandEndFreq, FALSE)
        /\ profile.averageEnergyByBand.high = MeanBetween(midBandEndFreq, maxFreqHz, FALSE)

C6_Witness ==
    /\ pc = "resolved"
    /\ sampleRate = 44100 /\ fftSize = 2048
    /\ Len(allMagnitudes) = 2
    /\ allMagnitudes[1][1] > 0
    /\ allMagnitudes[1][TotalBins(fftSize)] > 0
    /\ profile.averageEnergyByBand.low > profile.averageEnergyByBand.mid
    /\ profile.averageEnergyByBand.high > 0

(***************************************************************************)
(* Third specification: the EQ planner.  An EQCalculator has been          *)
(* constructed; no analysis is running.  Each step is one call of          *)
(* generateBackgroundEQ or of calculateQFromBandwidth on that instance.    *)
(***************************************************************************)
DominantFrequencies ==
    {0, 6460, 9999, 10000, 10001, 15000, 150000, 499999, 500000, 500001, 801035}

EQProfiles ==
    {[dominantFrequency |-> d,
      averageEnergyByBand |-> [low |-> 0, mid |-> 0, high |-> 0],
      peakFrequencies |-> <<>>] : d \in DominantFrequencies}
    \cup {NoProfile,
          [averageEnergyByBand |-> [low |-> 0, mid |-> 0, high |-> 0]]}

LayerTypes ==
    {"ambience", "music", "transmission-static", "structural-intro", "structural-outro"}

InputLabels == {<<"[", "bg0_volfade", "]">>, <<"[", "bg1_volfade", "]">>}

CenterFrequencies == {0, 150, 1500, 2000}
Bandwidths == {0, 1, 1500, 3000}

InitEQ ==
    /\ sampleRate = 44100
    /\ fftSize = 2048
    /\ input = <<>>
    /\ sent = 0
    /\ buffer = <<>>
    /\ allMagnitudes = <<>>
    /\ windows = <<>>
    /\ pc = "idle"
    /\ profile = NoProfile
    /\ calc = NewEQCalculator(44100)
    /\ eqCall = NoCall
    /\ qCall = NoCall
    /\ eqPrev = NoCall
    /\ MixerIdle
    /\ ServerIdle
    /\ SingleCall

CallGenerateBackgroundEQ ==
    /\ \E p \in EQProfiles, t \in LayerTypes, l \in InputLabels :
          LET after == StateAfterGenerateBackgroundEQ(calc, p, t, l)
          IN  /\ eqCall' = [vocalProfile |-> p, layerType |-> t, inputLabel |-> l,
                             result |-> GenerateBackgroundEQ(calc, p, t, l),
                             vocalProfileAfter |-> after.vocalProfile]
              /\ calc' = after.calc
    /\ UNCHANGED <<analyzerVars, qCall, eqPrev, mixVars, serverVars, callVars>>

CallCalculateQFromBandwidth ==
    /\ \E f \in CenterFrequencies, b \in Bandwidths :
          qCall' = [fCenter |-> f, bandwidthInHz |-> b,
                    result |-> CalculateQFromBandwidth(f, b)]
    /\ UNCHANGED <<analyzerVars, calc, eqCall, eqPrev, mixVars, serverVars, callVars>>

NextEQ == CallGenerateBackgroundEQ \/ CallCalculateQFromBandwidth

SpecEQ == InitEQ /\ [][NextEQ]_vars

(***************************************************************************)
(* Fourth specification: consecutive calls of generateBackgroundEQ on one  *)
(* calculator, the call before the last one being remembered.              *)
(***************************************************************************)
CallGenerateBackgroundEQAfterAnother ==
    /\ \E p \in EQProfiles, t \in LayerTypes, l \in InputLabels :
          LET after == StateAfterGenerateBackgroundEQ(calc, p, t, l)
          IN  /\ eqCall' = [vocalProfile |-> p, layerType |-> t, inputLabel |-> l,
                             result |-> GenerateBackgroundEQ(calc, p, t, l),
                             vocalProfileAfter |-> after.vocalProfile]
              /\ calc' = after.calc
    /\ eqPrev' = eqCall
    /\ UNCHANGED <<analyzerVars, qCall, mixVars, serverVars, callVars>>

NextPlanner == CallGenerateBackgroundEQAfterAnother

SpecPlanner == InitEQ /\ [][NextPlanner]_vars

(***************************************************************************)
(*                       Properties of the EQ planner                      *)
(***************************************************************************)
Centred(vocalProfile) ==
    /\ HasDominantFrequency(vocalProfile)
    /\ vocalProfile.dominantFrequency > 10000
    /\ vocalProfile.dominantFrequency < 500000

IsNotch(filter) == filter.type = "equalizer" /\ filter.g = -4

FallbackNotch ==
    [type |-> "equalizer", f |-> 200000, width_type |-> "q", width |-> 80, g |-> -4]

RoleCut ==
    [type |-> "equalizer", f |-> 500000, width_type |-> "q", width |-> 100, g |-> -3]

\* C7: for every profile and role the chain starts with a high-pass at 90 Hz
\* followed by exactly one -4 dB notch: at dominantFrequency when
\* 100 < dominantFrequency < 5000 (strict), otherwise the fallback notch at
\* 2000 Hz with Q = 0.8.
C7_HighpassThenOneNotch ==
    eqCall # NoCall =>
        LET filters == eqCall.result.filters
            p == eqCall.vocalProfile
        IN  /\ Len(filters) >= 2
            /\ filters[1] = [type |-> "highpass", f |-> 9000]
            /\ {i \in 1..Len(filters) : IsNotch(filters[i])} = {2}
            /\ Centred(p) => filters[2].f = p.dominantFrequency
            /\ ~Centred(p) => filters[2] = FallbackNotch

C7_Witness ==
    /\ eqCall # NoCall
    /\ HasDominantFrequency(eqCall.vocalProfile)
    /\ eqCall.vocalProfile.dominantFrequency = 500000
    /\ eqCall.result.filters[2] = FallbackNotch

\* C8: when dominantFrequency is in (100 Hz, 5000 Hz) the notch has
\* Q = 1500 / dominantFrequency; for 150 Hz and role ambience the chain is
\* highpass@90, notch@150 Q = 10.0 gain -4, cut@5000 gain -3.
C8_QIsBandwidthOverFrequency ==
    (eqCall # NoCall /\ Centred(eqCall.vocalProfile)) =>
        LET filters == eqCall.result.filters
            f == eqCall.vocalProfile.dominantFrequency
        IN  /\ filters[2].width = ToFixed(150000, f, 2)
            /\ (f = 15000 /\ eqCall.layerType = "ambience") =>
                   filters = <<[type |-> "highpass", f |-> 9000],
                               [type |-> "equalizer", f |-> 15000, width_type |-> "q",
                                width |-> 1000, g |-> -4],
                               RoleCut>>

\* C8 as amended: when dominantFrequency is in (100 Hz, 5000 Hz) the notch
\* has Q = dominantFrequency / 1500, written with two decimals; for 150 Hz
\* and role ambience the chain is highpass@90, notch@150 Q = 0.10 gain -4,
\* cut@5000 gain -3.
C8_QIsFrequencyOverBandwidth ==
    (eqCall # NoCall /\ Centred(eqCall.vocalProfile)) =>
        LET filters == eqCall.result.filters
            f == eqCall.vocalProfile.dominantFrequency
        IN  /\ filters[2].width = ToFixed(f, 150000, 2)
            /\ (f = 15000 /\ eqCall.layerType = "ambience") =>
                   filters = <<[type |-> "highpass", f |-> 9000],
                               [type |-> "equalizer", f |-> 15000, width_type |-> "q",
                                width |-> 10, g |-> -4],
                               RoleCut>>

C8_Witness ==
    /\ eqCall # NoCall
    /\ Centred(eqCall.vocalProfile)
    /\ eqCall.vocalProfile.dominantFrequency = 15000
    /\ eqCall.layerType = "ambience"
    /\ eqCall.result.filters[2].width = 10

\* C9: the chain ends with one more cut at 5000 Hz, gain -3 dB, exactly when
\* the role is ambience or music; for every other role it has two filters.
\* dominantFrequency = 0 with role music gives highpass@90, notch@2000
\* Q = 0.8 gain -4, cut@5000 gain -3.
C9_RoleCutForAmbienceAndMusic ==
    eqCall # NoCall =>
        LET filters == eqCall.result.filters
            sustained == eqCall.layerType \in {"ambience", "music"}
        IN  /\ sustained => (Len(filters) = 3 /\ filters[3] = RoleCut)
            /\ ~sustained => Len(filters) = 2
            /\ \A i \in 1..Len(filters) : filters[i] = RoleCut => (i = 3 /\ sustained)
            /\ (/\ HasDominantFrequency(eqCall.vocalProfile)
                /\ eqCall.vocalProfile.dominantFrequency = 0
                /\ eqCall.layerType = "music") =>
                   filters = <<[type |-> "highpass", f |-> 9000], FallbackNotch, RoleCut>>

C9_Witness ==
    /\ eqCall # NoCall
    /\ HasDominantFrequency(eqCall.vocalProfile)
    /\ eqCall.vocalProfile.dominantFrequency = 0
    /\ eqCall.layerType = "music"
    /\ Len(eqCall.result.filters) = 3

\* C10: calculateQFromBandwidth returns Q = 1.0 whenever the bandwidth is 0,
\* for every center frequency including 0, without dividing; for a nonzero
\* bandwidth it returns centerFrequency / bandwidth.
C10_ZeroBandwidthGivesUnitQ ==
    qCall # NoCall =>
        /\ qCall.result.den # 0
        /\ qCall.bandwidthInHz = 0 => qCall.result = [num |-> 1, den |-> 1]
        /\ qCall.bandwidthInHz # 0 =>
               qCall.result.num * qCall.bandwidthInHz = qCall.fCenter * qCall.result.den

C10_Witness ==
    /\ qCall # NoCall
    /\ qCall.bandwidthInHz = 0
    /\ qCall.fCenter = 0
    /\ qCall.result = [num |-> 1, den |-> 1]

SameArguments(a, b) ==
    /\ a.vocalProfile = b.vocalProfile
    /\ a.layerType = b.layerType
    /\ a.inputLabel = b.inputLabel

NoDuration == -1    \* metadata.format.duration is undefined

NoSource == [selected |-> FALSE, exists |-> FALSE, err |-> FALSE, duration |-> NoDuration]
Missing == [selected |-> TRUE, exists |-> FALSE, err |-> FALSE, duration |-> NoDuration]
ProbeError == [selected |-> TRUE, exists |-> TRUE, err |-> TRUE, duration |-> NoDuration]
File(d) == [selected |-> TRUE, exists |-> TRUE, err |-> FALSE, duration |-> d]

(***************************************************************************)
(* !layer.duration, layer.duration as a condition: undefined and 0 are     *)
(* falsy.                                                                  *)
(***************************************************************************)
Truthy(duration) == duration # NoDuration /\ duration # 0

(***************************************************************************)
(* Volumes are in hundredths.  A volume that is not defined, on a layer or *)
(* in config.mixing, is NoVolume; undefined and 0 are falsy.               *)
(***************************************************************************)
NoVolume == -1

TruthyVolume(volume) == volume # NoVolume /\ volume # 0

MixingVolume(cfg, key) ==
    IF key \in DOMAIN cfg.mixing THEN cfg.mixing[key] ELSE NoVolume

(***************************************************************************)
(* LayerManager._getAudioDuration: rejects when the file is inaccessible   *)
(* or ffprobe fails, and otherwise resolves with metadata.format.duration  *)
(* whatever it is.                                                         *)
(***************************************************************************)
GetAudioDuration(file) ==
    IF ~file.exists
    THEN [rejected |-> TRUE, duration |-> NoDuration,
          error |-> "Audio file does not exist or is inaccessible"]
    ELSE IF file.err
    THEN [rejected |-> TRUE, duration |-> NoDuration, error |-> "ffprobe error"]
    ELSE [rejected |-> FALSE, duration |-> file.duration, error |-> ""]

(***************************************************************************)
(* The order in which createLayers probes and pushes.                      *)
(***************************************************************************)
LayerOrder == <<"voice", "intro", "outro", "ambience", "music", "effects">>

(***************************************************************************)
(* The layer object createLayers pushes for one role.                      *)
(***************************************************************************)
NewLayer(cfg, role, duration, voiceDuration) ==
    CASE role = "voice" ->
           [filePath |-> role, type |-> "voice", volume |-> MixingVolume(cfg, "voiceVolume"),
            fadeIn |-> 5, fadeOut |-> 10, duration |-> duration,
            loop |-> FALSE, startOffset |-> 0]
      [] role = "intro" ->
           [filePath |-> role, type |-> "structural-intro", volume |-> IF TruthyVolume(MixingVolume(cfg, "introVolume"))
                      THEN MixingVolume(cfg, "introVolume") ELSE 100,
            fadeIn |-> 0, fadeOut |-> 5, duration |-> duration,
            loop |-> FALSE, startOffset |-> 0]
      [] role = "outro" ->
           [filePath |-> role, type |-> "structural-outro", volume |-> IF TruthyVolume(MixingVolume(cfg, "outroVolume"))
                      THEN MixingVolume(cfg, "outroVolume") ELSE 100,
            fadeIn |-> 5, fadeOut |-> 0, duration |-> duration,
            loop |-> FALSE,
            startOffset |-> IF voiceDuration > 0 THEN voiceDuration - 10 ELSE 0]
      [] role = "ambience" ->
           [filePath |-> role, type |-> "ambience", volume |-> MixingVolume(cfg, "ambienceVolume"),
            fadeIn |-> 10, fadeOut |-> 10, duration |-> duration,
            loop |-> TRUE, startOffset |-> 0]
      [] role = "music" ->
           [filePath |-> role, type |-> "music", volume |-> MixingVolume(cfg, "musicVolume"),
            fadeIn |-> 20, fadeOut |-> 20, duration |-> duration,
            loop |-> TRUE, startOffset |-> 0]
      [] role = "effects" ->
           [filePath |-> role, type |-> "transmission-static",
            volume |-> MixingVolume(cfg, "transmissionStaticVolume"),
            fadeIn |-> 1, fadeOut |-> 5, duration |-> duration,
            loop |-> FALSE, startOffset |-> 0]

(***************************************************************************)
(* LayerManager.createLayers.  The probes are awaited in LayerOrder; the   *)
(* first rejection is thrown and no list is returned.                      *)
(***************************************************************************)
CreateLayers(cfg, src) ==
    IF ~src.voice.selected
    THEN [thrown |-> TRUE, error |-> "Voice file path is required.", layers |-> <<>>]
    ELSE LET chosen == SelectSeq(LayerOrder, LAMBDA r : src[r].selected)
             probe(i) == GetAudioDuration(src[chosen[i]])
             failing == {i \in 1..Len(chosen) : probe(i).rejected}
             first == CHOOSE i \in failing : \A j \in failing : i <= j
         IN  IF failing # {}
             THEN [thrown |-> TRUE, error |-> probe(first).error, layers |-> <<>>]
             ELSE [thrown |-> FALSE, error |-> "",
                   layers |-> [i \in 1..Len(chosen) |->
                                  NewLayer(cfg, chosen[i], probe(i).duration,
                                           probe(1).duration)]]

(***************************************************************************)
(* processTransmission, the loop after createLayers: a layer whose         *)
(* duration is falsy is probed again; reprobeFails holds the layers whose  *)
(* second probe reports an error.                                          *)
(***************************************************************************)
EnsureDurations(ls, src, reprobeFails) ==
    [i \in 1..Len(ls) |->
        IF Truthy(ls[i].duration) THEN ls[i]
        ELSE IF i \in reprobeFails THEN [ls[i] EXCEPT !.duration = 0]
        ELSE [ls[i] EXCEPT !.duration = src[ls[i].filePath].duration]]

(***************************************************************************)
(* A filter graph is the list of chains that buildFilterComplex joins with *)
(* ";".  A chain is a list of elements in the order they are written into  *)
(* the string: stream labels and filters.                                  *)
(***************************************************************************)
Label(name) == [kind |-> "label", text |-> <<"[", name, "]">>]

Op(filter) == [kind |-> "filter", filter |-> filter]

(***************************************************************************)
(* volume, then a fade-in if fadeIn > 0, then a fade-out if fadeOut > 0    *)
(* and the duration is truthy; the fade-out starts at duration - fadeOut.  *)
(***************************************************************************)
VolumeAndFades(gain, layer) ==
    <<Op([type |-> "volume", volume |-> gain])>>
    \o (IF layer.fadeIn > 0
        THEN <<Op([type |-> "afade", t |-> "in", start |-> 0, d |-> layer.fadeIn])>>
        ELSE <<>>)
    \o (IF layer.fadeOut > 0 /\ Truthy(layer.duration)
        THEN <<Op([type |-> "afade", t |-> "out",
                   start |-> layer.duration - layer.fadeOut, d |-> layer.fadeOut])>>
        ELSE <<>>)

(***************************************************************************)
(* voiceLayer.volume || this.config.mixing.voiceVolume                     *)
(***************************************************************************)
VoiceGain(cfg, voiceLayer) ==
    IF TruthyVolume(voiceLayer.volume) THEN voiceLayer.volume
    ELSE MixingVolume(cfg, "voiceVolume")

(***************************************************************************)
(* layer.volume || this.config.mixing[`${layer.type}Volume`] || 0.1        *)
(***************************************************************************)
BackgroundGain(cfg, layer) ==
    IF TruthyVolume(layer.volume) THEN layer.volume
    ELSE IF TruthyVolume(MixingVolume(cfg, layer.type \o "Volume"))
    THEN MixingVolume(cfg, layer.type \o "Volume")
    ELSE 10

(***************************************************************************)
(* buildFilterComplex, step 1: the voice chain [0:a] ... [processedVoice]. *)
(***************************************************************************)
VoiceChain(cfg, voiceLayer) ==
    <<Label("0:a")>>
    \o VolumeAndFades(VoiceGain(cfg, voiceLayer), voiceLayer)
    \o (IF cfg.effects.voiceEQ
        THEN <<Op([type |-> "equalizer", width_type |-> "h"])>>
        ELSE <<>>)
    \o <<Label("processedVoice")>>

InputStreamName(index) == ToString(index + 1) \o ":a"

(***************************************************************************)
(* The volume+fade label as it would be without the layer's index.         *)
(***************************************************************************)
VolFadeNameUnindexed(index) == "bg" \o "_volfade"

VolFadeName(index) == "bg" \o ToString(index) \o "_volfade"

VolFadeChain(cfg, layer, index) ==
    <<Label(InputStreamName(index))>>
    \o VolumeAndFades(BackgroundGain(cfg, layer), layer)
    \o <<Label(VolFadeName(index))>>

(***************************************************************************)
(* if (vocalAnalysis && vocalAnalysis.vocalProfile)                        *)
(***************************************************************************)
HasVocalProfile(va) == va # NoAnalysis /\ va.vocalProfile # NoProfile

(***************************************************************************)
(* The string generateBackgroundEQ returns, as a chain.                    *)
(***************************************************************************)
EqChain(eq) ==
    <<[kind |-> "label", text |-> eq.input]>>
    \o [i \in 1..Len(eq.filters) |-> Op(eq.filters[i])]
    \o <<[kind |-> "label", text |-> eq.output]>>

(***************************************************************************)
(* eqFilterString.match(/\[([^\]]+)\]$/): the label the string ends with,  *)
(* if its name is not empty.                                               *)
(***************************************************************************)
EqOutputLabelMatch(chain) ==
    LET last == chain[Len(chain)]
    IN  IF Len(chain) > 0 /\ last.kind = "label" /\ last.text[2] # ""
        THEN <<last.text[2]>>
        ELSE <<>>

(***************************************************************************)
(* The final label of a background layer as it would be if the label       *)
(* after volume and fades were always kept.                                *)
(***************************************************************************)
FinalBgLabelKeepsVolFade(eqChain, currentBgLabel) == currentBgLabel

(***************************************************************************)
(* The final label of a background layer: the output label of the EQ       *)
(* string when there is one, else the label after volume and fades.        *)
(***************************************************************************)
FinalBgLabel(eqChain, currentBgLabel) ==
    IF Len(eqChain) > 0
    THEN LET eqOutputLabelMatch == EqOutputLabelMatch(eqChain)
         IN  IF Len(eqOutputLabelMatch) > 0
             THEN Label(eqOutputLabelMatch[1])
             ELSE currentBgLabel
    ELSE currentBgLabel

(***************************************************************************)
(* buildFilterComplex, step 2, for one background layer: the chains pushed *)
(* and the label pushed to processedBackgroundLabels.                      *)
(***************************************************************************)
BackgroundLayer(cfg, c, layer, index, va) ==
    LET currentBgLabel == Label(VolFadeName(index))
        eqChain == IF HasVocalProfile(va)
                   THEN EqChain(GenerateBackgroundEQ(c, va.vocalProfile, layer.type,
                                                     currentBgLabel.text))
                   ELSE <<>>
    IN  [chains |-> <<VolFadeChain(cfg, layer, index)>>
                    \o (IF Len(eqChain) > 0 THEN <<eqChain>> ELSE <<>>),
         finalBgLabel |-> FinalBgLabel(eqChain, currentBgLabel)]

(***************************************************************************)
(* Step 3 as it would be if the sidechain compressor were always inserted. *)
(***************************************************************************)
MixBackgroundsAlwaysDucked(cfg, processedBackgroundLabels, currentVoiceLabel) ==
    IF Len(processedBackgroundLabels) > 0
    THEN [chains |->
            <<processedBackgroundLabels
              \o <<Op([type |-> "amix", inputs |-> Len(processedBackgroundLabels),
                       duration |-> "longest"])>>
              \o <<Label("rawMixedBackgrounds")>>,
              <<Label("rawMixedBackgrounds"), currentVoiceLabel,
                Op([type |-> "sidechaincompress"]),
                Label("mixedBackgrounds")>> >>,
          mixedBackgroundsLabel |-> <<Label("mixedBackgrounds")>>]
    ELSE [chains |-> <<>>, mixedBackgroundsLabel |-> <<>>]

(***************************************************************************)
(* buildFilterComplex, step 3: the background sum and the ducking.         *)
(* mixedBackgroundsLabel is a list of no label (null) or one label.        *)
(***************************************************************************)
MixBackgrounds(cfg, processedBackgroundLabels, currentVoiceLabel) ==
    IF Len(processedBackgroundLabels) > 0
    THEN LET sum == processedBackgroundLabels
                    \o <<Op([type |-> "amix",
                             inputs |-> Len(processedBackgroundLabels),
                             duration |-> "longest"])>>
                    \o <<Label("rawMixedBackgrounds")>>
         IN  IF cfg.ducking.enabled
             THEN [chains |-> <<sum,
                                <<Label("rawMixedBackgrounds"), currentVoiceLabel,
                                  Op([type |-> "sidechaincompress"]),
                                  Label("mixedBackgrounds")>> >>,
                   mixedBackgroundsLabel |-> <<Label("mixedBackgrounds")>>]
             ELSE [chains |-> <<sum>>,
                   mixedBackgroundsLabel |-> <<Label("rawMixedBackgrounds")>>]
    ELSE [chains |-> <<>>, mixedBackgroundsLabel |-> <<>>]

(***************************************************************************)
(* Step 4 as it would be if the final sum ended with its shortest input.   *)
(***************************************************************************)
FinalMixShortest(currentVoiceLabel, mixedBackgroundsLabel) ==
    LET finalMixInputLabels == <<currentVoiceLabel>> \o mixedBackgroundsLabel
    IN  IF Len(finalMixInputLabels) > 1
        THEN finalMixInputLabels
             \o <<Op([type |-> "amix", inputs |-> Len(finalMixInputLabels),
                      duration |-> "shortest"])>>
             \o <<Label("preMaster")>>
        ELSE <<currentVoiceLabel, Op([type |-> "anull"]), Label("preMaster")>>

(***************************************************************************)
(* buildFilterComplex, step 4: the final sum of voice and backgrounds.     *)
(***************************************************************************)
FinalMix(currentVoiceLabel, mixedBackgroundsLabel) ==
    LET finalMixInputLabels == <<currentVoiceLabel>> \o mixedBackgroundsLabel
    IN  IF Len(finalMixInputLabels) > 1
        THEN finalMixInputLabels
             \o <<Op([type |-> "amix", inputs |-> Len(finalMixInputLabels),
                      duration |-> "first"])>>
             \o <<Label("preMaster")>>
        ELSE <<currentVoiceLabel, Op([type |-> "anull"]), Label("preMaster")>>

(***************************************************************************)
(* buildFilterComplex, step 5: [preMaster], then loudnorm and alimiter as  *)
(* configured, then [out].                                                 *)
(***************************************************************************)
MasterChain(cfg) ==
    <<Label("preMaster")>>
    \o (IF cfg.mastering.normalizeLoudness /\ cfg.processing.targetLufs
        THEN <<Op([type |-> "loudnorm"])>>
        ELSE <<>>)
    \o (IF cfg.mastering.limiter THEN <<Op([type |-> "alimiter"])>> ELSE <<>>)
    \o <<Label("out")>>

(***************************************************************************)
(* TransmissionMixer.buildFilterComplex.                                   *)
(***************************************************************************)
BuildFilterComplex(cfg, c, voiceLayer, backgroundLayers, va) ==
    LET currentVoiceLabel == Label("processedVoice")
        bg == [i \in 1..Len(backgroundLayers) |->
                  BackgroundLayer(cfg, c, backgroundLayers[i], i - 1, va)]
        processedBackgroundLabels == [i \in 1..Len(bg) |-> bg[i].finalBgLabel]
        mixed == MixBackgrounds(cfg, processedBackgroundLabels, currentVoiceLabel)
    IN  <<VoiceChain(cfg, voiceLayer)>>
        \o Flatten([i \in 1..Len(bg) |-> bg[i].chains])
        \o mixed.chains
        \o <<FinalMix(currentVoiceLabel, mixed.mixedBackgroundsLabel)>>
        \o <<MasterChain(cfg)>>

(***************************************************************************)
(* mixLayers: the voice layer is the first layer of type voice, the        *)
(* background layers are all others, in order.                             *)
(***************************************************************************)
VoiceLayers(ls) == SelectSeq(ls, LAMBDA l : l.type = "voice")

BackgroundLayers(ls) == SelectSeq(ls, LAMBDA l : l.type # "voice")

(***************************************************************************)
(* The configurations, sources and analyses of the fifth specification.    *)
(* audio-settings.json is read at construction; only the settings the      *)
(* mixer branches on are kept.                                             *)
(***************************************************************************)
Configs ==
    {[ducking |-> [enabled |-> d],
      mastering |-> [normalizeLoudness |-> n, limiter |-> l],
      processing |-> [sampleRate |-> 44100, targetLufs |-> TRUE],
      mixing |-> [voiceVolume |-> 100, ambienceVolume |-> 30, musicVolume |-> 20,
                  transmissionStaticVolume |-> 15],
      effects |-> [voiceEQ |-> v]] : d, n, l, v \in BOOLEAN}

VoiceSources == {NoSource, Missing, File(NoDuration), File(5), File(10), File(600)}
IntroSources == {NoSource, File(30)}
OutroSources == {NoSource, File(50), ProbeError}
AmbienceSources == {NoSource, File(300), File(15), File(NoDuration)}
MusicSources == {NoSource, File(300), File(30)}
EffectSources == {NoSource, File(5)}

AnalysedProfiles ==
    {GetDefaultVocalProfile,
     [dominantFrequency |-> 15000,
      averageEnergyByBand |-> [low |-> 0, mid |-> 0, high |-> 0],
      peakFrequencies |-> <<>>]}

InitMix ==
    /\ sampleRate = 44100
    /\ fftSize = 2048
    /\ input = <<>>
    /\ sent = 0
    /\ buffer = <<>>
    /\ allMagnitudes = <<>>
    /\ windows = <<>>
    /\ pc = "idle"
    /\ profile = NoProfile
    /\ config \in Configs
    /\ calc = NewEQCalculator(config.processing.sampleRate)
    /\ eqCall = NoCall
    /\ qCall = NoCall
    /\ eqPrev = NoCall
    /\ sources \in [voice : VoiceSources, intro : IntroSources, outro : OutroSources,
                    ambience : AmbienceSources, music : MusicSources,
                    effects : EffectSources]
    /\ layers = <<>>
    /\ filterComplex = <<>>
    /\ vocalAnalysis = NoAnalysis
    /\ result = NoResult
    /\ stage = "received"
    /\ analysis = NoAnalysis
    /\ commandInputs = <<>>
    /\ ServerIdle
    /\ SingleCall

(***************************************************************************)
(* ContentAnalyzer.getDefaultAnalysis, as far as the mixer uses it.        *)
(***************************************************************************)
GetDefaultAnalysis ==
    [failed |-> TRUE, location |-> "unknown", mood |-> "mysterious", duration |-> 0,
     vocalProfile |-> GetDefaultVocalProfile]

(***************************************************************************)
(* ContentAnalyzer.analyze as it would be if its catch answered without a  *)
(* vocal profile.                                                          *)
(***************************************************************************)
ContentAnalyzeWithoutProfile(voice, vocal) ==
    IF ~voice.selected \/ ~voice.exists \/ voice.err \/ vocal.rejected
    THEN [failed |-> TRUE, location |-> "unknown", mood |-> "mysterious",
          duration |-> 0, vocalProfile |-> NoProfile]
    ELSE [failed |-> FALSE, location |-> "unknown", mood |-> "mysterious",
          duration |-> voice.duration, vocalProfile |-> vocal.profile]

(***************************************************************************)
(* ContentAnalyzer.getDefaultAnalysis and ContentAnalyzer.analyze, as far  *)
(* as the mixer uses the result.  failed is not a field of the object: it  *)
(* records that the catch of analyze built it.  analyze probes the voice   *)
(* file, transcribes it and awaits VocalAnalyzer.analyze; any rejection is *)
(* caught and answered with the default analysis.                          *)
(***************************************************************************)
ContentAnalyze(voice, vocal) ==
    IF ~voice.selected \/ ~voice.exists \/ voice.err
    THEN GetDefaultAnalysis
    ELSE IF vocal.rejected
    THEN GetDefaultAnalysis
    ELSE [failed |-> FALSE, location |-> "unknown", mood |-> "mysterious",
          duration |-> voice.duration, vocalProfile |-> vocal.profile]

(***************************************************************************)
(* What VocalAnalyzer.analyze can answer: a rejection on an ffmpeg error,  *)
(* or a profile.                                                           *)
(***************************************************************************)
VocalOutcomes ==
    {[rejected |-> TRUE, profile |-> NoProfile]}
    \cup {[rejected |-> FALSE, profile |-> p] : p \in AnalysedProfiles}

(***************************************************************************)
(* processTransmission, step 1: contentAnalyzer.analyze.                   *)
(***************************************************************************)
AwaitAnalyze ==
    /\ stage = "received"
    /\ \E vocal \in VocalOutcomes : analysis' = ContentAnalyze(sources.voice, vocal)
    /\ stage' = "start"
    /\ UNCHANGED <<analyzerVars, eqVars, serverVars, callVars, config, sources, layers,
                   filterComplex, vocalAnalysis, result, commandInputs>>

(***************************************************************************)
(* The catch of processTransmission as it would be if it reported the path *)
(* the output would have had.                                              *)
(***************************************************************************)
ProcessTransmissionCatchWithPath(error) ==
    [success |-> FALSE, error |-> error, outputPath |-> <<"transmission-", 0>>]

(***************************************************************************)
(* The catch of processTransmission: { success: false, error }.            *)
(***************************************************************************)
ProcessTransmissionCatch(error) == [success |-> FALSE, error |-> error]

(***************************************************************************)
(* processTransmission, step 3: createLayers returns the list or throws,   *)
(* and the catch turns the exception into { success: false, error }.       *)
(***************************************************************************)
AwaitCreateLayers ==
    /\ stage = "start"
    /\ LET r == CreateLayers(config, sources)
       IN  IF r.thrown
           THEN /\ result' = ProcessTransmissionCatch(r.error)
                /\ stage' = "failed"
                /\ UNCHANGED layers
           ELSE /\ layers' = r.layers
                /\ stage' = "layers"
                /\ UNCHANGED result
    /\ UNCHANGED <<analyzerVars, eqVars, serverVars, callVars, config, sources,
                   filterComplex, vocalAnalysis, analysis, commandInputs>>

(***************************************************************************)
(* processTransmission, the duration loop.                                 *)
(***************************************************************************)
EnsureLayerDurations ==
    /\ stage = "layers"
    /\ \E reprobeFails \in SUBSET {i \in 1..Len(layers) : ~Truthy(layers[i].duration)} :
          layers' = EnsureDurations(layers, sources, reprobeFails)
    /\ stage' = "durations"
    /\ UNCHANGED <<analyzerVars, eqVars, serverVars, callVars, config, sources,
                   filterComplex, vocalAnalysis, result, analysis, commandInputs>>

(***************************************************************************)
(* options.outputPath || transmission-${Date.now()}.<format>               *)
(***************************************************************************)
OutputPath(options, t) ==
    IF "outputPath" \in DOMAIN options THEN options.outputPath
    ELSE <<"transmission-", t>>

(***************************************************************************)
(* mixLayers, the inputs of the command: the voice file, then the file of  *)
(* every background layer that has a filePath; the others are skipped.     *)
(***************************************************************************)
RegisterInputs(voiceLayer, backgroundLayers) ==
    LET withPath == SelectSeq(backgroundLayers, LAMBDA l : l.filePath # "")
    IN  <<voiceLayer.filePath>> \o [i \in 1..Len(withPath) |-> withPath[i].filePath]

(***************************************************************************)
(* mixLayers up to the graph it hands to ffmpeg: it rejects when there is  *)
(* no voice layer or the voice layer has no filePath.                      *)
(***************************************************************************)
MixLayers(cfg, c, ls, va) ==
    IF Len(VoiceLayers(ls)) = 0 \/ VoiceLayers(ls)[1].filePath = ""
    THEN [rejected |-> TRUE, filterComplex |-> <<>>, inputs |-> <<>>,
          error |-> "Voice layer (primary input) is missing or has no file path."]
    ELSE [rejected |-> FALSE, error |-> "",
          inputs |-> RegisterInputs(VoiceLayers(ls)[1], BackgroundLayers(ls)),
          filterComplex |-> BuildFilterComplex(cfg, c, VoiceLayers(ls)[1],
                                               BackgroundLayers(ls), va)]

(***************************************************************************)
(* processTransmission, step 4: mixLayers(layers, { ...options,            *)
(* vocalAnalysis: analysis }) builds the graph and starts ffmpeg.          *)
(***************************************************************************)
AwaitMixLayers ==
    /\ stage = "durations"
    /\ LET r == MixLayers(config, calc, layers, analysis)
       IN  /\ vocalAnalysis' = analysis
           /\ filterComplex' = r.filterComplex
           /\ commandInputs' = r.inputs
           /\ stage' = IF r.rejected THEN "failed" ELSE "mixing"
           /\ result' = IF r.rejected THEN ProcessTransmissionCatch(r.error)
                        ELSE result
    /\ UNCHANGED <<analyzerVars, eqVars, serverVars, callVars, config, sources, layers,
                   analysis>>

(***************************************************************************)
(* mixLayers called with options that carry no vocalAnalysis, or one       *)
(* without a vocalProfile.                                                 *)
(***************************************************************************)
CallMixLayersWithoutProfile ==
    /\ stage = "durations"
    /\ \E va \in {NoAnalysis, [vocalProfile |-> NoProfile]} :
          LET r == MixLayers(config, calc, layers, va)
          IN  /\ vocalAnalysis' = va
              /\ filterComplex' = r.filterComplex
              /\ commandInputs' = r.inputs
              /\ stage' = IF r.rejected THEN "failed" ELSE "mixing"
              /\ result' = IF r.rejected THEN [success |-> FALSE, error |-> r.error]
                           ELSE result
    /\ UNCHANGED <<analyzerVars, eqVars, serverVars, callVars, config, sources, layers,
                   analysis>>

(***************************************************************************)
(* processTransmission awaiting mixLayers: the promise is resolved with    *)
(* the output path on ffmpeg's end event, and processTransmission returns  *)
(* success with it.                                                        *)
(***************************************************************************)
OnRenderEnd ==
    /\ stage = "mixing"
    /\ vocalAnalysis = analysis
    /\ result' = [success |-> TRUE, outputPath |-> OutputPath([none |-> TRUE], now)]
    /\ stage' = "done"
    /\ UNCHANGED <<analyzerVars, eqVars, serverVars, callVars, config, sources, layers,
                   filterComplex, vocalAnalysis, analysis, commandInputs>>

(***************************************************************************)
(* The promise is rejected on ffmpeg's error event, and the catch of       *)
(* processTransmission returns { success: false, error }.                  *)
(***************************************************************************)
OnRenderError ==
    /\ stage = "mixing"
    /\ vocalAnalysis = analysis
    /\ result' = ProcessTransmissionCatch("ffmpeg error")
    /\ stage' = "failed"
    /\ UNCHANGED <<analyzerVars, eqVars, serverVars, callVars, config, sources, layers,
                   filterComplex, vocalAnalysis, analysis, commandInputs>>

NextMix ==
    \/ AwaitAnalyze
    \/ AwaitCreateLayers
    \/ EnsureLayerDurations
    \/ AwaitMixLayers
    \/ CallMixLayersWithoutProfile
    \/ OnRenderEnd
    \/ OnRenderError

SpecMix == InitMix /\ [][NextMix]_vars

(***************************************************************************)
(*                     Properties of layer assembly                        *)
(***************************************************************************)
SelectedRoles == {r \in DOMAIN sources : sources[r].selected}

Undeterminable(file) == ~file.exists \/ file.err \/ file.duration = NoDuration

LayersReturned == stage \in {"layers", "durations", "mixing", "done"}

\* C12: when the duration of the voice or of a selected candidate cannot be
\* determined (file missing, probe error, probe result without duration),
\* layer assembly fails and yields no layer list; every layer of a returned
\* list carries its source's probed duration, and no layer reaches graph
\* compilation with duration 0.
C12_UnknownDurationAborts ==
    /\ (stage \notin {"received", "start"}
           /\ \E r \in SelectedRoles : Undeterminable(sources[r])) =>
           (stage = "failed" /\ layers = <<>>)
    /\ LayersReturned =>
           \A i \in 1..Len(layers) :
               /\ layers[i].duration # NoDuration
               /\ layers[i].duration = sources[layers[i].filePath].duration
    /\ stage \in {"durations", "mixing", "done"} =>
           \A i \in 1..Len(layers) : layers[i].duration # 0

\* C13: every layer createLayers returns with duration > 0 has
\* fadeIn + fadeOut <= duration.
C13_FadesFitDuration ==
    stage = "layers" =>
        \A i \in 1..Len(layers) :
            layers[i].duration > 0 =>
                layers[i].fadeIn + layers[i].fadeOut <= layers[i].duration

\* C14: every layer createLayers returns has startOffset >= 0.
C14_StartOffsetNonNegative ==
    stage = "layers" =>
        \A i \in 1..Len(layers) : layers[i].startOffset >= 0

(***************************************************************************)
(*                   Properties of the compiled graph                      *)
(*                                                                         *)
(* A chain is read as the code writes it, [inputs]filters[output]: the     *)
(* labels before its first filter are the streams it reads, the labels     *)
(* after its last filter the streams it produces.  A chain without a       *)
(* filter produces nothing.  The labels k:a are the inputs of the ffmpeg   *)
(* command, every other label is a named bus.                              *)
(***************************************************************************)
FilterPositions(chain) == {i \in 1..Len(chain) : chain[i].kind = "filter"}

LabelName(element) == element.text[2]

ChainReadSeq(chain) ==
    LET leading == SelectSeq([i \in 1..Len(chain) |-> [at |-> i, element |-> chain[i]]],
                             LAMBDA e : /\ e.element.kind = "label"
                                        /\ \A k \in FilterPositions(chain) : e.at < k)
    IN  [i \in 1..Len(leading) |-> LabelName(leading[i].element)]

ChainReads(chain) == {ChainReadSeq(chain)[i] : i \in 1..Len(ChainReadSeq(chain))}

ChainWrites(chain) ==
    {LabelName(chain[i]) : i \in {j \in 1..Len(chain) :
                                     /\ chain[j].kind = "label"
                                     /\ FilterPositions(chain) # {}
                                     /\ \A k \in FilterPositions(chain) : j > k}}

ChainFilterTypes(chain) == {chain[i].filter.type : i \in FilterPositions(chain)}

IsInputStream(name) == \E k \in 0..Len(LayerOrder) : name = ToString(k) \o ":a"

BusesRead(chain) == {b \in ChainReads(chain) : ~IsInputStream(b)}

Producers(graph, bus) == {n \in 1..Len(graph) : bus \in ChainWrites(graph[n])}

Readers(graph, bus) == {n \in 1..Len(graph) : bus \in ChainReads(graph[n])}

ProducedBuses(graph) == UNION {ChainWrites(graph[n]) : n \in 1..Len(graph)}

NamedBuses(graph) ==
    ProducedBuses(graph) \cup UNION {BusesRead(graph[n]) : n \in 1..Len(graph)}

Compiled == stage = "mixing"

NumBackgrounds == Len(BackgroundLayers(layers))

MasteringConfigured ==
    (config.mastering.normalizeLoudness /\ config.processing.targetLufs)
    \/ config.mastering.limiter

\* C15: in every compiled graph each named bus a chain reads was produced by
\* a chain emitted earlier, so no bus reference dangles.
C15_TopologicallyOrdered ==
    Compiled =>
        \A n \in 1..Len(filterComplex) :
            \A b \in BusesRead(filterComplex[n]) :
                \E m \in 1..(n - 1) : b \in ChainWrites(filterComplex[m])

\* C16: every compiled graph has exactly one terminal bus: out is produced
\* exactly once and read by no chain, and every other produced bus is read
\* by a later chain.
C16_OneTerminalBus ==
    Compiled =>
        /\ Cardinality(Producers(filterComplex, "out")) = 1
        /\ Readers(filterComplex, "out") = {}
        /\ \A n \in 1..Len(filterComplex) :
               \A b \in ChainWrites(filterComplex[n]) \ {"out"} :
                   \E m \in (n + 1)..Len(filterComplex) :
                       b \in ChainReads(filterComplex[m])

\* C17: the bus names produced within one compiled graph are pairwise
\* distinct: no chain produces two buses and no two chains produce the same.
C17_BusNamesDistinct ==
    Compiled =>
        /\ \A n \in 1..Len(filterComplex) :
               Cardinality(ChainWrites(filterComplex[n])) <= 1
        /\ \A n, m \in 1..Len(filterComplex) :
               n # m => ChainWrites(filterComplex[n]) \cap ChainWrites(filterComplex[m]) = {}

C17_Witness ==
    /\ Compiled
    /\ NumBackgrounds >= 3
    /\ HasVocalProfile(vocalAnalysis)
    /\ {"bg0_volfade", "bg0_volfade_eq", "bg1_volfade", "bg1_volfade_eq",
        "bg2_volfade", "bg2_volfade_eq"} \subseteq ProducedBuses(filterComplex)

(***************************************************************************)
(* The duration of a bus.  Input k of the command lasts as long as its     *)
(* file (the mixer passes no loop option to ffmpeg); amix lasts as its     *)
(* duration option says; every other filter keeps the duration of its      *)
(* first input.                                                            *)
(***************************************************************************)
MixInputs == VoiceLayers(layers) \o BackgroundLayers(layers)

AmixModes(chain) ==
    {chain[i].filter.duration :
        i \in {j \in FilterPositions(chain) : chain[j].filter.type = "amix"}}

RECURSIVE BusDuration(_, _, _)
BusDuration(graph, inputs, name) ==
    IF IsInputStream(name)
    THEN inputs[CHOOSE k \in 1..Len(inputs) : name = ToString(k - 1) \o ":a"].duration
    ELSE LET chain == graph[CHOOSE n \in Producers(graph, name) : TRUE]
             reads == ChainReadSeq(chain)
             durations == {BusDuration(graph, inputs, reads[i]) : i \in 1..Len(reads)}
         IN  IF "longest" \in AmixModes(chain)
             THEN CHOOSE d \in durations : \A e \in durations : e <= d
             ELSE IF "shortest" \in AmixModes(chain)
             THEN CHOOSE d \in durations : \A e \in durations : d <= e
             ELSE BusDuration(graph, inputs, reads[1])

(***************************************************************************)
(* The scenario: a 60 s voice, one 30 s ambience and one 30 s music layer, *)
(* a vocal profile and ducking enabled.                                    *)
(***************************************************************************)
Scenario60 ==
    /\ Compiled
    /\ sources.voice = File(600)
    /\ sources.ambience = File(300)
    /\ sources.music = File(300)
    /\ sources.intro = NoSource
    /\ sources.outro = NoSource
    /\ sources.effects = NoSource
    /\ HasVocalProfile(vocalAnalysis)
    /\ config.ducking.enabled

TerminalLasts(graph, inputs, d) ==
    /\ Producers(graph, "out") # {}
    /\ BusDuration(graph, inputs, "out") = d

BackgroundSum == filterComplex[CHOOSE n \in Producers(filterComplex, "rawMixedBackgrounds") : TRUE]

EqName(index) == OutputLabel(Label(VolFadeName(index)).text)

BackgroundIndices == 0..(NumBackgrounds - 1)

ProducedEarlier(bus, n) == \E m \in 1..(n - 1) : bus \in ChainWrites(filterComplex[m])

Sidechains ==
    {n \in 1..Len(filterComplex) :
        "sidechaincompress" \in ChainFilterTypes(filterComplex[n])}

PreMaster == filterComplex[CHOOSE n \in Producers(filterComplex, "preMaster") : TRUE]

\* C20: with one background layer or more, ducking enabled puts one
\* sidechain compressor on the combined bus with the voice bus as control
\* and sums its output with the voice; ducking disabled sums the combined
\* bus itself with the voice and emits no sidechain compressor.  With no
\* background layer there is neither a combined nor a ducked bus and the
\* pre-master bus is fed by the voice bus alone.
C20_DuckingAndVoiceOnly ==
    Compiled =>
        /\ Cardinality(Producers(filterComplex, "preMaster")) = 1
        /\ (NumBackgrounds >= 1 /\ config.ducking.enabled) =>
               /\ Cardinality(Sidechains) = 1
               /\ \A n \in Sidechains :
                      /\ ChainReadSeq(filterComplex[n]) =
                             <<"rawMixedBackgrounds", "processedVoice">>
                      /\ ChainWrites(filterComplex[n]) = {"mixedBackgrounds"}
               /\ ChainReadSeq(PreMaster) = <<"processedVoice", "mixedBackgrounds">>
        /\ (NumBackgrounds >= 1 /\ ~config.ducking.enabled) =>
               /\ Sidechains = {}
               /\ Producers(filterComplex, "mixedBackgrounds") = {}
               /\ ChainReadSeq(PreMaster) = <<"processedVoice", "rawMixedBackgrounds">>
        /\ NumBackgrounds = 0 =>
               /\ Sidechains = {}
               /\ Producers(filterComplex, "rawMixedBackgrounds") = {}
               /\ Producers(filterComplex, "mixedBackgrounds") = {}
               /\ ChainReadSeq(PreMaster) = <<"processedVoice">>
               /\ ChainFilterTypes(PreMaster) = {"anull"}

C20_Witness ==
    /\ Compiled
    /\ NumBackgrounds >= 1
    /\ config.ducking.enabled
    /\ Cardinality(Sidechains) = 1
    /\ ChainReadSeq(PreMaster) = <<"processedVoice", "mixedBackgrounds">>

AllDurationsKnown == \A i \in 1..Len(layers) : Truthy(layers[i].duration)

(***************************************************************************)
(* The end of the latest structural outro on the timeline of the mix, or 0 *)
(* when there is none.                                                     *)
(***************************************************************************)
OutroEnd ==
    LET ends == {layers[i].startOffset + layers[i].duration :
                    i \in {j \in 1..Len(layers) : layers[j].type = "structural-outro"}}
    IN  IF ends = {} THEN 0 ELSE CHOOSE e \in ends : \A f \in ends : f <= e

\* C21: the pre-master bus lasts as long as the voice bus, except that it
\* extends to the end of a structural outro (startOffset + duration) that
\* lies after the end of the voice.
C21_PreMasterCoversOutroTail ==
    (Compiled /\ AllDurationsKnown) =>
        BusDuration(filterComplex, MixInputs, "preMaster") =
            Max(BusDuration(filterComplex, MixInputs, "processedVoice"), OutroEnd)

\* C25: in every compiled graph each produced bus other than out is read by
\* exactly one later chain; no bus fans out to two consumers.
C25_NoFanOut ==
    Compiled =>
        \A n \in 1..Len(filterComplex) :
            \A b \in ChainWrites(filterComplex[n]) \ {"out"} :
                Cardinality({m \in (n + 1)..Len(filterComplex) :
                                b \in ChainReads(filterComplex[m])}) = 1

(***************************************************************************)
(* The chain that takes background layer index from its input, and the     *)
(* delays it applies.                                                      *)
(***************************************************************************)
LayerChains(index) ==
    {n \in 1..Len(filterComplex) :
        InputStreamName(index) \in ChainReads(filterComplex[n])}

ChainDelays(chain) ==
    {chain[i].filter.delay :
        i \in {j \in FilterPositions(chain) : chain[j].filter.type = "adelay"}}

\* C28: a background layer with startOffset > 0 has a delay of startOffset
\* applied in its bus before it is summed.
C28_StartOffsetHonoured ==
    Compiled =>
        \A i \in BackgroundIndices :
            BackgroundLayers(layers)[i + 1].startOffset > 0 =>
                \E n \in LayerChains(i) :
                    ChainDelays(filterComplex[n]) =
                        {BackgroundLayers(layers)[i + 1].startOffset}

(***************************************************************************)
(*              Properties of a processTransmission request                *)
(***************************************************************************)
AnalysisFailed == analysis # NoAnalysis /\ analysis.failed

ViaProcessTransmission == stage \in {"mixing", "done"} /\ vocalAnalysis = analysis

VoiceLost == ~sources.voice.selected \/ ~sources.voice.exists \/ sources.voice.err

SourceLost == \E r \in DOMAIN sources : sources[r].selected /\
                                        (~sources[r].exists \/ sources[r].err)

EqPlannedWithFallback ==
    \A i \in BackgroundIndices :
        \E n \in Producers(filterComplex, EqName(i)) :
            \E k \in FilterPositions(filterComplex[n]) :
                filterComplex[n][k].filter = FallbackNotch

DegradesToDefault ==
    AnalysisFailed =>
        /\ analysis.vocalProfile = GetDefaultVocalProfile
        /\ ViaProcessTransmission => EqPlannedWithFallback

\* C22 as stated: a failed voice analysis does not abort the request, which
\* goes on with the default profile and plans the EQ of every background
\* layer with the fallback notch; the request fails only when the voice
\* source itself is missing or cannot be probed.
C22_OnlyVoiceLossFatal ==
    /\ DegradesToDefault
    /\ (AnalysisFailed /\ stage = "failed") => VoiceLost

\* C22, amended: after a failed voice analysis the request goes on with the
\* default profile and plans the EQ of every background layer with the
\* fallback notch; it then fails only when the voice or a selected candidate
\* is missing or cannot be probed, or when rendering fails.
C22_AnalysisFailureNotFatal ==
    /\ DegradesToDefault
    /\ (AnalysisFailed /\ stage = "failed") =>
           (VoiceLost \/ SourceLost \/ result.error = "ffmpeg error")
    /\ (AnalysisFailed /\ ~VoiceLost /\ ~SourceLost) =>
           (stage = "failed" => result.error = "ffmpeg error")

C22_Witness ==
    /\ AnalysisFailed
    /\ ~VoiceLost
    /\ stage = "done"
    /\ result.success
    /\ NumBackgrounds >= 2
    /\ EqPlannedWithFallback

Returned == stage \in {"done", "failed"}

ReturnShape ==
    /\ Returned <=> result # NoResult
    /\ stage = "failed" => (~result.success /\ DOMAIN result = {"success", "error"})
    /\ stage = "done" =>
           (result.success /\ "outputPath" \in DOMAIN result /\ filterComplex # <<>>)
    /\ (stage \notin {"received", "start"} /\ CreateLayers(config, sources).thrown) =>
           (stage = "failed" /\ result.error = CreateLayers(config, sources).error)

\* C30 as stated: processTransmission resolves with { success: false, error }
\* and no outputPath for every failure in content analysis, layer assembly,
\* graph construction or rendering, and with success: true only after the
\* renderer signalled completion.
C30_EveryFailureReported ==
    /\ ReturnShape
    /\ (AnalysisFailed /\ Returned) => ~result.success

\* C30, amended: a failure in content analysis is absorbed by the default
\* analysis and does not by itself fail the request; for every failure in
\* layer assembly, in mixLayers or in rendering processTransmission resolves
\* with { success: false, error } and no outputPath, and it resolves with
\* success: true only after the renderer signalled completion.  Once it has
\* returned, no stage runs again.
C30_FailuresAfterAnalysisReported ==
    /\ [](ReturnShape)
    /\ [][Returned => UNCHANGED <<stage, result, layers, filterComplex>>]_vars

C30_Witness ==
    /\ stage = "failed"
    /\ result = [success |-> FALSE, error |-> "ffmpeg error"]
    /\ AnalysisFailed
    /\ filterComplex # <<>>


(***************************************************************************)
(*          Sixth specification: mixLayers called with a layer list        *)
(*                                                                         *)
(* mixLayers is a public method: its caller builds the layer list.  A      *)
(* layer may come without a filePath ("" here) and without a volume        *)
(* (NoVolume), or with an explicit volume of 0.                            *)
(***************************************************************************)
DirectLayer(type, filePath, volume) ==
    [filePath |-> filePath, type |-> type, volume |-> volume,
     fadeIn |-> 5, fadeOut |-> 0, duration |-> 60, loop |-> FALSE, startOffset |-> 0]

DirectVoiceLayers ==
    {<<>>} \cup {<<DirectLayer("voice", f, v)>> : f \in {"voice", ""}, v \in {NoVolume, 0, 80}}

DirectBackgrounds(type) ==
    {<<>>} \cup {<<DirectLayer(type, f, v)>> : f \in {type, ""}, v \in {NoVolume, 0, 50}}

DirectIntros ==
    {<<>>} \cup {<<DirectLayer("structural-intro", "intro", v)>> : v \in {NoVolume, 0, 100}}

DirectLayerLists ==
    {v \o a \o m \o i : v \in DirectVoiceLayers, a \in DirectBackgrounds("ambience"),
                        m \in DirectBackgrounds("music"), i \in DirectIntros}

InitDirect ==
    /\ sampleRate = 44100
    /\ fftSize = 2048
    /\ input = <<>>
    /\ sent = 0
    /\ buffer = <<>>
    /\ allMagnitudes = <<>>
    /\ windows = <<>>
    /\ pc = "idle"
    /\ profile = NoProfile
    /\ config \in Configs
    /\ calc = NewEQCalculator(config.processing.sampleRate)
    /\ eqCall = NoCall
    /\ qCall = NoCall
    /\ eqPrev = NoCall
    /\ sources = NoSources
    /\ layers \in DirectLayerLists
    /\ filterComplex = <<>>
    /\ vocalAnalysis = NoAnalysis
    /\ result = NoResult
    /\ stage = "direct"
    /\ analysis = NoAnalysis
    /\ commandInputs = <<>>
    /\ ServerIdle
    /\ SingleCall

(***************************************************************************)
(* mixLayers(layers, options): the promise is rejected without a voice     *)
(* layer that has a filePath; otherwise the inputs are registered and the  *)
(* graph is built.                                                         *)
(***************************************************************************)
CallMixLayers ==
    /\ stage = "direct"
    /\ \E va \in {NoAnalysis} \cup {[vocalProfile |-> p] : p \in AnalysedProfiles} :
          LET r == MixLayers(config, calc, layers, va)
          IN  /\ vocalAnalysis' = va
              /\ filterComplex' = r.filterComplex
              /\ commandInputs' = r.inputs
              /\ stage' = IF r.rejected THEN "rejected" ELSE "mixing"
    /\ UNCHANGED <<analyzerVars, eqVars, serverVars, callVars, config, sources, layers,
                   result, analysis>>

NextDirect == CallMixLayers

SpecDirect == InitDirect /\ [][NextDirect]_vars

(***************************************************************************)
(*                 Properties of mixLayers called directly                 *)
(***************************************************************************)

(***************************************************************************)
(* The gains of the volume filters of a chain.                             *)
(***************************************************************************)
ChainGains(chain) ==
    {chain[i].filter.volume :
        i \in {j \in FilterPositions(chain) : chain[j].filter.type = "volume"}}

(***************************************************************************)
(* The gain the layer asks for: its own volume when it defines one, else   *)
(* the configured volume of its role, else 0.1.                            *)
(***************************************************************************)
IntendedGain(layer) ==
    IF layer.volume # NoVolume THEN layer.volume
    ELSE IF MixingVolume(config, layer.type \o "Volume") # NoVolume
    THEN MixingVolume(config, layer.type \o "Volume")
    ELSE 10

\* C29: the gain applied on a layer's bus is the layer's own volume whenever
\* the layer defines one, an explicit 0 included; the configured volume of
\* the role and the constant 0.1 are used only when the layer defines none.
C29_LayerVolumeWins ==
    Compiled =>
        /\ ChainGains(filterComplex[1]) = {IntendedGain(VoiceLayers(layers)[1])}
        /\ \A i \in BackgroundIndices :
              \A n \in LayerChains(i) :
                  ChainGains(filterComplex[n]) =
                      {IntendedGain(BackgroundLayers(layers)[i + 1])}

(***************************************************************************)
(* The positions in the command's input list that a chain reads.           *)
(***************************************************************************)
InputsRead(chain) ==
    {j \in 0..(Len(filterComplex) + 1) : (ToString(j) \o ":a") \in ChainReads(chain)}

\* C26: the input read by the graph node of background layer k is the one
\* registered from layer k's own file, and every input index the graph
\* refers to was registered, also when a background layer without filePath
\* was skipped at registration.
C26_InputsMatchLayers ==
    Compiled =>
        /\ \A n \in 1..Len(filterComplex) :
              \A j \in InputsRead(filterComplex[n]) : j + 1 <= Len(commandInputs)
        /\ \A i \in BackgroundIndices :
              \A n \in LayerChains(i) :
                  \A j \in InputsRead(filterComplex[n]) :
                      /\ j + 1 <= Len(commandInputs)
                      /\ commandInputs[j + 1] = BackgroundLayers(layers)[i + 1].filePath


(***************************************************************************)
(*        Seventh specification: the server, requests in flight            *)
(*                                                                         *)
(* POST /api/process builds a new TransmissionMixer for every upload and   *)
(* awaits processTransmission; the handlers of several requests interleave *)
(* at their awaits.  now is the clock Date.now() reads, in milliseconds.   *)
(***************************************************************************)
MaxRequests == 2
MaxNow == 2

NoPath == <<>>
NoResponse == [none |-> TRUE]

(***************************************************************************)
(* What multer stored for the upload: an audio file, or a file ffprobe     *)
(* cannot read.                                                            *)
(***************************************************************************)
Uploads == {File(5), File(10), ProbeError}

(***************************************************************************)
(* The candidates of one request: the uploaded voice and an ambience bed.  *)
(***************************************************************************)
RequestSources(voice) ==
    [voice |-> voice, intro |-> NoSource, outro |-> NoSource, ambience |-> File(300),
     music |-> NoSource, effects |-> NoSource]

(***************************************************************************)
(* const mixer = new TransmissionMixer(): the state of one request.        *)
(***************************************************************************)
NewRequest(voice) ==
    [voice |-> voice, stage |-> "received", analysis |-> NoAnalysis, layers |-> <<>>,
     filterComplex |-> <<>>, outputPath |-> NoPath, response |-> NoResponse,
     unlinked |-> FALSE]

(***************************************************************************)
(* The settings file the server runs with: voice EQ and mastering are on,  *)
(* ducking is on or off.                                                   *)
(***************************************************************************)
ServerConfigs ==
    {cfg \in Configs : /\ cfg.effects.voiceEQ
                       /\ cfg.mastering.normalizeLoudness
                       /\ cfg.mastering.limiter}

InitServer ==
    /\ sampleRate = 44100
    /\ fftSize = 2048
    /\ input = <<>>
    /\ sent = 0
    /\ buffer = <<>>
    /\ allMagnitudes = <<>>
    /\ windows = <<>>
    /\ pc = "idle"
    /\ profile = NoProfile
    /\ config \in ServerConfigs
    /\ calc = NewEQCalculator(config.processing.sampleRate)
    /\ eqCall = NoCall
    /\ qCall = NoCall
    /\ eqPrev = NoCall
    /\ sources = NoSources
    /\ layers = <<>>
    /\ filterComplex = <<>>
    /\ vocalAnalysis = NoAnalysis
    /\ result = NoResult
    /\ stage = "idle"
    /\ analysis = NoAnalysis
    /\ commandInputs = <<>>
    /\ ServerIdle
    /\ SingleCall

(***************************************************************************)
(* A request arrives with an uploaded file.                                *)
(***************************************************************************)
ReceiveUpload ==
    /\ Len(requests) < MaxRequests
    /\ \E voice \in Uploads : requests' = Append(requests, NewRequest(voice))
    /\ UNCHANGED <<analyzerVars, eqVars, mixVars, callVars, now>>

(***************************************************************************)
(* A request arrives without a file: 400, before any mixer is built.       *)
(***************************************************************************)
RejectEmptyUpload ==
    /\ Len(requests) < MaxRequests
    /\ requests' = Append(requests,
                          [NewRequest(NoSource) EXCEPT
                              !.stage = "responded",
                              !.response = [status |-> 400, success |-> FALSE,
                                            error |-> "No audio file uploaded."]])
    /\ UNCHANGED <<analyzerVars, eqVars, mixVars, callVars, now>>

(***************************************************************************)
(* processTransmission of one request, step 1: content analysis.           *)
(***************************************************************************)
AnalyzeRequest ==
    /\ \E i \in 1..Len(requests) :
          /\ requests[i].stage = "received"
          /\ \E vocal \in VocalOutcomes :
                requests' = [requests EXCEPT
                                ![i].analysis = ContentAnalyze(requests[i].voice, vocal),
                                ![i].stage = "analysed"]
    /\ UNCHANGED <<analyzerVars, eqVars, mixVars, callVars, now>>

(***************************************************************************)
(* processTransmission of one request from createLayers to the start of    *)
(* ffmpeg: mixLayers takes the output path from Date.now().  A rejection   *)
(* is caught, answered with 500, and the upload is unlinked.               *)
(***************************************************************************)
StartRender ==
    /\ \E i \in 1..Len(requests) :
          /\ requests[i].stage = "analysed"
          /\ LET src == RequestSources(requests[i].voice)
                 r == CreateLayers(config, src)
                 ls == EnsureDurations(r.layers, src, {})
                 m == MixLayers(config, calc, ls, requests[i].analysis)
             IN  IF r.thrown \/ m.rejected
                 THEN requests' = [requests EXCEPT
                         ![i].stage = "responded",
                         ![i].response =
                             [status |-> 500, success |-> FALSE,
                              error |-> ProcessTransmissionCatch(
                                            IF r.thrown THEN r.error ELSE m.error).error],
                         ![i].unlinked = TRUE]
                 ELSE requests' = [requests EXCEPT
                         ![i].stage = "mixing",
                         ![i].layers = ls,
                         ![i].filterComplex = m.filterComplex,
                         ![i].outputPath = OutputPath([none |-> TRUE], now)]
    /\ UNCHANGED <<analyzerVars, eqVars, mixVars, callVars, now>>

(***************************************************************************)
(* ffmpeg ends: processTransmission returns success and the handler        *)
(* answers with the URL of the output file.                                *)
(***************************************************************************)
RespondSuccess ==
    /\ \E i \in 1..Len(requests) :
          /\ requests[i].stage = "mixing"
          /\ requests' = [requests EXCEPT
                 ![i].stage = "responded",
                 ![i].response = [status |-> 200, success |-> TRUE,
                                  outputUrl |-> <<"http://localhost:5000/output/">>
                                                \o requests[i].outputPath],
                 ![i].unlinked = TRUE]
    /\ UNCHANGED <<analyzerVars, eqVars, mixVars, callVars, now>>

(***************************************************************************)
(* ffmpeg reports an error: processTransmission returns success: false and *)
(* the handler answers with 500.                                           *)
(***************************************************************************)
RespondRenderError ==
    /\ \E i \in 1..Len(requests) :
          /\ requests[i].stage = "mixing"
          /\ requests' = [requests EXCEPT
                 ![i].stage = "responded",
                 ![i].response = [status |-> 500, success |-> FALSE,
                                  error |-> ProcessTransmissionCatch("ffmpeg error").error],
                 ![i].unlinked = TRUE]
    /\ UNCHANGED <<analyzerVars, eqVars, mixVars, callVars, now>>

(***************************************************************************)
(* A millisecond passes.                                                   *)
(***************************************************************************)
Tick ==
    /\ now < MaxNow
    /\ now' = now + 1
    /\ UNCHANGED <<analyzerVars, eqVars, mixVars, callVars, requests>>

NextServer ==
    \/ ReceiveUpload
    \/ RejectEmptyUpload
    \/ AnalyzeRequest
    \/ StartRender
    \/ RespondSuccess
    \/ RespondRenderError
    \/ Tick

SpecServer == InitServer /\ [][NextServer]_vars

(***************************************************************************)
(*                   Properties of requests in flight                      *)
(***************************************************************************)

(***************************************************************************)
(* The graph a request gets when it is the only one the server processes.  *)
(***************************************************************************)
GraphAlone(req) ==
    LET src == RequestSources(req.voice)
        ls == EnsureDurations(CreateLayers(config, src).layers, src, {})
    IN  MixLayers(config, NewEQCalculator(config.processing.sampleRate), ls,
                  req.analysis).filterComplex

Rendering(i) == requests[i].outputPath # NoPath

\* C23: requests processed concurrently share no mutable state: under every
\* interleaving each request's graph is the one it gets alone, and two
\* requests never write the same output path.
C23_RequestsIndependent ==
    \A i \in 1..Len(requests) :
        Rendering(i) =>
            /\ requests[i].filterComplex = GraphAlone(requests[i])
            /\ \A j \in 1..Len(requests) :
                  (j # i /\ Rendering(j)) =>
                      requests[j].outputPath # requests[i].outputPath


(***************************************************************************)
(*     Eighth specification: the caller gives up during an analysis        *)
(*                                                                         *)
(* analyze(audioFilePath) takes the path only, and neither the promise nor *)
(* the ffmpeg command is handed back to a caller who wants to stop it: a   *)
(* cancellation raised by the caller changes nothing in the analyzer, and  *)
(* the data, end and error handlers run as before.                         *)
(***************************************************************************)
RaiseCancellation ==
    /\ pc = "streaming"
    /\ ~cancelRaised
    /\ cancelRaised' = TRUE
    /\ UNCHANGED <<analyzerVars, eqVars, mixVars, serverVars, second>>

NextCancel == OnData \/ OnEnd \/ OnError \/ RaiseCancellation

SpecCancel == Init /\ [][NextCancel]_vars

\* C24: if cancellation is raised after analysis has started and before the
\* stream has ended, analyze returns the neutral default profile, never a
\* profile computed from the windows seen so far.
C24_CancelledGivesDefault ==
    (cancelRaised /\ pc = "resolved") => profile = GetDefaultVocalProfile


(***************************************************************************)
(*     Ninth specification: two analyze calls on one VocalAnalyzer         *)
(*                                                                         *)
(* this.buffer and this.allMagnitudes belong to the instance.  The first   *)
(* call is the one of the streaming specification; second is a call made   *)
(* on the same instance while the first is still streaming, with its own   *)
(* ffmpeg command, stream position and promise.                            *)
(***************************************************************************)
SharedStreams ==
    {[k \in 1..len |-> PatternByte(p, k)] : p \in {"silence", "tone"}, len \in {4, 8}}

InitShared ==
    /\ \E c \in StreamConfigs : sampleRate = c.sampleRate /\ fftSize = c.fftSize
    /\ input \in SharedStreams
    /\ sent = 0
    /\ buffer = <<>>
    /\ allMagnitudes = <<>>
    /\ windows = <<>>
    /\ pc = "streaming"
    /\ profile = NoProfile
    /\ calc = NewEQCalculator(sampleRate)
    /\ eqCall = NoCall
    /\ qCall = NoCall
    /\ eqPrev = NoCall
    /\ MixerIdle
    /\ ServerIdle
    /\ SingleCall

(***************************************************************************)
(* analyze is called again: the instance's buffer and accumulated windows  *)
(* are reset, and a second ffmpeg command starts to deliver its stream.    *)
(***************************************************************************)
StartSecondAnalyze ==
    /\ pc = "streaming"
    /\ second = NoCall
    /\ \E in2 \in SharedStreams :
          second' = [input |-> in2, sent |-> 0, pc |-> "streaming", profile |-> NoProfile]
    /\ buffer' = <<>>
    /\ allMagnitudes' = <<>>
    /\ windows' = <<>>
    /\ UNCHANGED <<sampleRate, fftSize, input, sent, pc, profile>>
    /\ UNCHANGED <<eqVars, mixVars, serverVars, cancelRaised>>

(***************************************************************************)
(* The data handler of the second call: it appends to, and processes, the  *)
(* same this.buffer.                                                       *)
(***************************************************************************)
OnDataSecond ==
    /\ second # NoCall
    /\ second.pc = "streaming"
    /\ second.sent < Len(second.input)
    /\ \E n \in 1..Min(MaxChunk, Len(second.input) - second.sent) :
          LET chunk == SubSeq(second.input, second.sent + 1, second.sent + n)
              st == ProcessBuffer([buffer |-> buffer \o chunk,
                                   allMagnitudes |-> allMagnitudes,
                                   windows |-> windows], fftSize, FALSE)
          IN  /\ second' = [second EXCEPT !.sent = second.sent + n]
              /\ buffer' = st.buffer
              /\ allMagnitudes' = st.allMagnitudes
              /\ windows' = st.windows
    /\ UNCHANGED <<sampleRate, fftSize, input, sent, pc, profile>>
    /\ UNCHANGED <<eqVars, mixVars, serverVars, cancelRaised>>

(***************************************************************************)
(* The end handler of the second call.                                     *)
(***************************************************************************)
OnEndSecond ==
    /\ second # NoCall
    /\ second.pc = "streaming"
    /\ second.sent = Len(second.input)
    /\ LET st == ProcessBuffer([buffer |-> buffer,
                                allMagnitudes |-> allMagnitudes,
                                windows |-> windows], fftSize, TRUE)
       IN  /\ buffer' = st.buffer
           /\ allMagnitudes' = st.allMagnitudes
           /\ windows' = st.windows
           /\ second' = [second EXCEPT
                            !.pc = "resolved",
                            !.profile = CalculateFinalProfile(st.allMagnitudes,
                                                              sampleRate, fftSize)]
    /\ UNCHANGED <<sampleRate, fftSize, input, sent, pc, profile>>
    /\ UNCHANGED <<eqVars, mixVars, serverVars, cancelRaised>>

(***************************************************************************)
(* The error handler of the second call.                                   *)
(***************************************************************************)
OnErrorSecond ==
    /\ second # NoCall
    /\ second.pc = "streaming"
    /\ second' = [second EXCEPT !.pc = "rejected"]
    /\ UNCHANGED <<analyzerVars, eqVars, mixVars, serverVars, cancelRaised>>

NextShared ==
    \/ OnData
    \/ OnEnd
    \/ OnError
    \/ StartSecondAnalyze
    \/ OnDataSecond
    \/ OnEndSecond
    \/ OnErrorSecond

SpecShared == InitShared /\ [][NextShared]_vars

(***************************************************************************)
(* The profile analyze resolves with when the stream is the only one the   *)
(* instance processes.                                                     *)
(***************************************************************************)
ProfileAlone(stream) ==
    CalculateFinalProfile(
        ProcessBuffer([buffer |-> stream, allMagnitudes |-> <<>>, windows |-> <<>>],
                      fftSize, TRUE).allMagnitudes,
        sampleRate, fftSize)

\* C27: when analyze is called on an instance whose earlier call is still
\* receiving data, each call resolves with the profile of its own input
\* only.
C27_CallsIsolated ==
    second # NoCall =>
        /\ pc = "resolved" => profile = ProfileAlone(input)
        /\ second.pc = "resolved" => second.profile = ProfileAlone(second.input)

====
